---- MODULE Spec2Model ----
(***************************************************************************)
(* A model of the vyze mental-health tracker: the relational store        *)
(* (users, mood entries, journals, achievements, doctor-patient           *)
(* assignments, doctor notes), the web views of dashboard/views.py and    *)
(* the REST endpoints of dashboard/api.py that read and write it.         *)
(*                                                                         *)
(* Every database query is one atomic step.  A handler that issues a      *)
(* query and later an insert that depends on it (check_achievements,      *)
(* assign_patient) is split into one action per query, so that requests   *)
(* running in different workers interleave between their queries.         *)
(***************************************************************************)
EXTENDS Integers, Sequences, FiniteSets, TLC

VARIABLES
    users,          \* accounts.User rows
    moods,          \* dashboard.MoodEntry rows
    mood_seq,       \* the MoodEntry table's auto-increment counter
    journals,       \* dashboard.Journal rows
    achievements,   \* dashboard.Achievement rows
    assignments,    \* dashboard.DoctorPatientAssignment rows
    notes,          \* dashboard.DoctorNote rows
    today,          \* timezone.now().date(), as a day number
    req,            \* the requests in flight: worker slot -> handler position
    resp,           \* the outcome of the last completed request or call
    sk              \* the frame of a running calculate_streak call

vars == <<users, moods, mood_seq, journals, achievements, assignments, notes,
          today, req, resp, sk>>

-----------------------------------------------------------------------------
(* Bounds of the model *)

\* mood entries that may be created on the current day
MaxNewEntries == 2
\* mood entries that may be deleted
MaxDeletes == 1
\* rows the assignment table may hold when a new assign request is admitted
MaxAssignments == 2
\* doctor notes that may be created
MaxNotes == 2
\* journals that may be created
MaxJournals == 2
\* the latest day number "today" is drawn from
MaxDay == 4

(* Program constants *)

\* views.py:484  mood_count >= 7
WeekWarriorCount == 7
\* views.py:485  points=10
WeekWarriorPoints == 10
\* views.py:487  mood_count >= 30
MonthlyMasterCount == 30
\* views.py:488  points=50
MonthlyMasterPoints == 50
\* models.py:19  range(1, 11)
MinMood == 1
MaxMood == 10

-----------------------------------------------------------------------------
(* Generic helpers *)

Max(S) == CHOOSE x \in S : \A y \in S : y <= x

\* The next primary key of a table whose rows are never deleted.
NextId(rows) == IF rows = {} THEN 1 ELSE Max({r.id : r \in rows}) + 1

-----------------------------------------------------------------------------
(* accounts.User *)

Patients == {"p1", "p2"}
Doctors == {"d1", "d2"}
UserIds == Patients \cup Doctors

\* A patient_id is a string; it is modelled as a sequence of characters so
\* that strip() and upper() are computed, not assumed.
\* NULL, which equals no string
NoPatientId == <<"NULL">>

PatientIdOf(u) ==
    CASE u = "p1" -> <<"A", "B">>
      [] u = "p2" -> <<"B", "A">>
      [] OTHER -> NoPatientId

RoleOf(u) == IF u \in Doctors THEN "doctor" ELSE "patient"

\* Every account has been saved: User.save gave each patient a patient_id,
\* a doctor has none.
SavedUsers == {[id |-> u, role |-> RoleOf(u), patient_id |-> PatientIdOf(u)] : u \in UserIds}

UserRow(u) == CHOOSE r \in users : r.id = u

\* accounts/decorators.py: doctor_required, patient_required
doctor_required(u) == UserRow(u).role = "doctor"
patient_required(u) == UserRow(u).role = "patient"

-----------------------------------------------------------------------------
(* dashboard.MoodEntry *)

\* MoodEntryForm / MoodEntrySerializer validation: mood is one of MOOD_CHOICES
ValidMood(m) == m \in MinMood..MaxMood

MoodRow(id, u, mood, note, tags, day) ==
    [id |-> id, user |-> u, mood |-> mood, note |-> note, tags |-> tags, day |-> day]

\* MoodEntry.objects.filter(user=user)
MoodsOf(ms, u) == {m \in ms : m.user = u}

\* MoodEntry.objects.filter(user=user).count()
MoodCount(ms, u) == Cardinality(MoodsOf(ms, u))

\* Entries created on the current day, for the bound on creation.
NewToday == {m \in moods : m.day = today}

CanCreateMood == Cardinality(NewToday) < MaxNewEntries

-----------------------------------------------------------------------------
(* dashboard.Achievement and check_achievements *)

WeekWarrior == "Week Warrior"
MonthlyMaster == "Monthly Master"

AchievementRow(id, u, title, description, points) ==
    [id |-> id, user |-> u, title |-> title, description |-> description, points |-> points]

\* check_achievements without its existence check: the query finds nothing.
AchievementExists_Unchecked(ach, u, title) == FALSE

\* Achievement.objects.filter(user=user, title=title).exists()
AchievementExists(ach, u, title) == \E a \in ach : a.user = u /\ a.title = title

\* Achievement.objects.create(...): the table has no uniqueness constraint,
\* the insert always succeeds with a fresh primary key.
AchievementCreate(ach, u, title, description, points) ==
    ach \cup {AchievementRow(NextId(ach), u, title, description, points)}

\* the first rule with == 7 in place of >= 7
WeekWarriorDue_OnlyAtSeven(ach, mood_count, u) ==
    mood_count = WeekWarriorCount /\ ~AchievementExists(ach, u, WeekWarrior)
\* views.py:484  the guard of the first rule
WeekWarriorDue(ach, mood_count, u) ==
    mood_count >= WeekWarriorCount /\ ~AchievementExists(ach, u, WeekWarrior)

\* views.py:487  the guard of the second rule
MonthlyMasterDue(ach, mood_count, u) ==
    mood_count >= MonthlyMasterCount /\ ~AchievementExists(ach, u, MonthlyMaster)

CreateWeekWarrior(ach, u) ==
    AchievementCreate(ach, u, WeekWarrior, "Logged mood for 7 days!", WeekWarriorPoints)

CreateMonthlyMaster(ach, u) ==
    AchievementCreate(ach, u, MonthlyMaster, "Logged mood for 30 days!", MonthlyMasterPoints)

\* check_achievements run with no other request in between its queries:
\* the achievement table it leaves.
check_achievements(ach, ms, u) ==
    LET mood_count == MoodCount(ms, u)
        a1 == IF WeekWarriorDue(ach, mood_count, u) THEN CreateWeekWarrior(ach, u) ELSE ach
    IN  IF MonthlyMasterDue(a1, mood_count, u) THEN CreateMonthlyMaster(a1, u) ELSE a1

-----------------------------------------------------------------------------
(* Requests in flight *)

Slots == {"w1", "w2"}

Idle == [op |-> "idle"]

IsIdle(s) == req[s].op = "idle"

Quiescent == \A s \in Slots : IsIdle(s)

NoStreak == [pc |-> "none"]

-----------------------------------------------------------------------------
(* views.log_mood *)

\* views.py:62-73  POST with a valid form: the entry is saved.  An invalid
\* form re-renders the page and writes nothing.
log_mood_save(s, u, mood, note, tags) ==
    /\ IsIdle(s)
    /\ CanCreateMood
    /\ IF ValidMood(mood)
       THEN /\ moods' = moods \cup {MoodRow(mood_seq + 1, u, mood, note, tags, today)}
            /\ mood_seq' = mood_seq + 1
            /\ req' = [req EXCEPT ![s] = [op |-> "log_mood", user |-> u, pc |-> "count"]]
            /\ UNCHANGED resp
       ELSE /\ resp' = [op |-> "log_mood", user |-> u, outcome |-> "form_invalid"]
            /\ UNCHANGED <<moods, mood_seq, req>>
    /\ UNCHANGED <<users, journals, achievements, assignments, notes, today, sk>>

\* views.py:483  mood_count = MoodEntry.objects.filter(user=user).count()
log_mood_count(s) ==
    /\ req[s].op = "log_mood" /\ req[s].pc = "count"
    /\ req' = [req EXCEPT ![s] = [op |-> "log_mood", user |-> req[s].user, pc |-> "ww",
                                  mood_count |-> MoodCount(moods, req[s].user)]]
    /\ UNCHANGED <<users, moods, mood_seq, journals, achievements, assignments, notes,
                   today, resp, sk>>

\* views.py:484  the exists() query of the first rule
log_mood_check_ww(s) ==
    /\ req[s].op = "log_mood" /\ req[s].pc = "ww"
    /\ req' = [req EXCEPT ![s].pc =
                 IF WeekWarriorDue(achievements, req[s].mood_count, req[s].user)
                 THEN "ww_create" ELSE "mm"]
    /\ UNCHANGED <<users, moods, mood_seq, journals, achievements, assignments, notes,
                   today, resp, sk>>

\* views.py:485  Achievement.objects.create(... 'Week Warrior' ...)
log_mood_create_ww(s) ==
    /\ req[s].op = "log_mood" /\ req[s].pc = "ww_create"
    /\ achievements' = CreateWeekWarrior(achievements, req[s].user)
    /\ req' = [req EXCEPT ![s].pc = "mm"]
    /\ UNCHANGED <<users, moods, mood_seq, journals, assignments, notes, today, resp, sk>>

\* views.py:78-79  the success message and the redirect
log_mood_done(s) ==
    /\ req' = [req EXCEPT ![s] = Idle]
    /\ resp' = [op |-> "log_mood", user |-> req[s].user, outcome |-> "logged"]

\* views.py:487  the exists() query of the second rule; when the rule does
\* not apply the handler returns.
log_mood_check_mm(s) ==
    /\ req[s].op = "log_mood" /\ req[s].pc = "mm"
    /\ IF MonthlyMasterDue(achievements, req[s].mood_count, req[s].user)
       THEN /\ req' = [req EXCEPT ![s].pc = "mm_create"]
            /\ UNCHANGED resp
       ELSE log_mood_done(s)
    /\ UNCHANGED <<users, moods, mood_seq, journals, achievements, assignments, notes,
                   today, sk>>

\* views.py:488  Achievement.objects.create(... 'Monthly Master' ...), then return
log_mood_create_mm(s) ==
    /\ req[s].op = "log_mood" /\ req[s].pc = "mm_create"
    /\ achievements' = CreateMonthlyMaster(achievements, req[s].user)
    /\ log_mood_done(s)
    /\ UNCHANGED <<users, moods, mood_seq, journals, assignments, notes, today, sk>>

-----------------------------------------------------------------------------
(* api.MoodEntryViewSet *)

\* api.py:73-74  perform_create: serializer.save(user=request.user).  The
\* serializer has the fields mood and note; tags keeps its default.
api_mood_create(u, mood, note) ==
    /\ CanCreateMood
    /\ IF ValidMood(mood)
       THEN /\ moods' = moods \cup {MoodRow(mood_seq + 1, u, mood, note, "", today)}
            /\ mood_seq' = mood_seq + 1
            /\ resp' = [op |-> "api_mood_create", user |-> u, outcome |-> "created"]
       ELSE /\ resp' = [op |-> "api_mood_create", user |-> u, outcome |-> "bad_request"]
            /\ UNCHANGED <<moods, mood_seq>>
    /\ UNCHANGED <<users, journals, achievements, assignments, notes, today, req, sk>>

\* api.py:70-71  get_queryset: a detail route (retrieve, update,
\* partial_update, destroy) finds an entry only among the caller's own.
OwnMood(u, id) == {m \in MoodsOf(moods, u) : m.id = id}

\* ModelViewSet's update of a row found by OwnMood: the serializer writes its
\* fields mood and note; id and date are read-only, user and tags are not
\* fields of the serializer.
api_mood_write(op, u, id, mood, note) ==
    /\ IF OwnMood(u, id) = {}
       THEN /\ resp' = [op |-> op, user |-> u, outcome |-> "not_found"]
            /\ UNCHANGED moods
       ELSE IF ~ValidMood(mood)
       THEN /\ resp' = [op |-> op, user |-> u, outcome |-> "bad_request"]
            /\ UNCHANGED moods
       ELSE LET old == CHOOSE m \in OwnMood(u, id) : TRUE
            IN  /\ moods' = (moods \ {old}) \cup {[old EXCEPT !.mood = mood, !.note = note]}
                /\ resp' = [op |-> op, user |-> u, outcome |-> "updated"]
    /\ UNCHANGED <<users, mood_seq, journals, achievements, assignments, notes, today,
                   req, sk>>

\* api.py:65  MoodEntryViewSet(viewsets.ModelViewSet): PUT mood-entries/<id>/
api_mood_update(u, id, mood, note) == api_mood_write("api_mood_update", u, id, mood, note)

\* api.py:65  MoodEntryViewSet(viewsets.ModelViewSet): PATCH mood-entries/<id>/
\* with the mood alone; the note keeps its value.
api_mood_partial_update(u, id, mood) ==
    LET note == IF OwnMood(u, id) = {} THEN "" ELSE (CHOOSE m \in OwnMood(u, id) : TRUE).note
    IN  api_mood_write("api_mood_partial_update", u, id, mood, note)

\* api.py:65  MoodEntryViewSet(viewsets.ModelViewSet): DELETE mood-entries/<id>/
api_mood_destroy(u, id) ==
    /\ mood_seq - Cardinality(moods) < MaxDeletes
    /\ IF OwnMood(u, id) = {}
       THEN /\ resp' = [op |-> "api_mood_destroy", user |-> u, outcome |-> "not_found"]
            /\ UNCHANGED moods
       ELSE /\ moods' = moods \ OwnMood(u, id)
            /\ resp' = [op |-> "api_mood_destroy", user |-> u, outcome |-> "deleted"]
    /\ UNCHANGED <<users, mood_seq, journals, achievements, assignments, notes, today,
                   req, sk>>

-----------------------------------------------------------------------------
(* dashboard.DoctorPatientAssignment *)

AssignmentRow(id, d, p, active) ==
    [id |-> id, doctor |-> d, patient |-> p, is_active |-> active]

AssignmentsOf(asg, d, p) == {a \in asg : a.doctor = d /\ a.patient = p}

\* DoctorPatientAssignment.objects.filter(doctor=d, patient=p, is_active=True).exists()
ActiveAssignment(asg, d, p) == \E a \in AssignmentsOf(asg, d, p) : a.is_active

\* The insert into a table without the unique_together constraint.
AssignmentCreate_NoUnique(asg, d, p) ==
    [ok |-> TRUE, rows |-> asg \cup {AssignmentRow(NextId(asg), d, p, TRUE)}]

\* DoctorPatientAssignment.objects.create(doctor=d, patient=p) under
\* Meta.unique_together = ['doctor', 'patient']: the database refuses a second
\* row of the pair with an IntegrityError, whatever the rows' is_active.
AssignmentCreate(asg, d, p) ==
    IF AssignmentsOf(asg, d, p) # {}
    THEN [ok |-> FALSE, rows |-> asg]
    ELSE [ok |-> TRUE, rows |-> asg \cup {AssignmentRow(NextId(asg), d, p, TRUE)}]

\* str.upper(), character by character
UpperChar(c) ==
    CASE c = "a" -> "A"
      [] c = "b" -> "B"
      [] OTHER -> c

upper(str) == [i \in 1..Len(str) |-> UpperChar(str[i])]

RECURSIVE lstrip(_)
lstrip(str) == IF str # <<>> /\ Head(str) = " " THEN lstrip(Tail(str)) ELSE str

RECURSIVE rstrip(_)
rstrip(str) ==
    IF str # <<>> /\ str[Len(str)] = " " THEN rstrip(SubSeq(str, 1, Len(str) - 1)) ELSE str

\* str.strip()
strip(str) == rstrip(lstrip(str))

\* User.objects.get(patient_id=patient_id, role='patient'): the matching rows;
\* none is User.DoesNotExist (patient_id is unique, so never more than one).
PatientsWithId(patient_id) ==
    {r \in users : r.patient_id = patient_id /\ r.role = "patient"}

\* views.py:201-206, api.py:229-240  the decorator, the normalisation of the
\* posted identifier and the lookup of the patient.
assign_patient_start(via, s, u, raw) ==
    LET patient_id == upper(strip(raw))
        found == PatientsWithId(patient_id)
    IN  /\ IsIdle(s)
        /\ Cardinality(assignments) < MaxAssignments
        /\ IF ~doctor_required(u)
           THEN /\ resp' = [op |-> "assign_patient", via |-> via, user |-> u,
                            outcome |-> "denied"]
                /\ UNCHANGED req
           ELSE IF found = {}
           THEN /\ resp' = [op |-> "assign_patient", via |-> via, user |-> u,
                            outcome |-> "not_found"]
                /\ UNCHANGED req
           ELSE /\ req' = [req EXCEPT ![s] =
                             [op |-> "assign_patient", via |-> via, user |-> u,
                              patient |-> (CHOOSE r \in found : TRUE).id, pc |-> "exists"]]
                /\ UNCHANGED resp
        /\ UNCHANGED <<users, moods, mood_seq, journals, achievements, assignments,
                       notes, today, sk>>

\* views.py:209-214, api.py:243-251  the "already assigned" check
assign_patient_exists(via, s) ==
    /\ req[s].op = "assign_patient" /\ req[s].via = via /\ req[s].pc = "exists"
    /\ IF ActiveAssignment(assignments, req[s].user, req[s].patient)
       THEN /\ resp' = [op |-> "assign_patient", via |-> via, user |-> req[s].user,
                        outcome |-> "already_assigned"]
            /\ req' = [req EXCEPT ![s] = Idle]
       ELSE /\ req' = [req EXCEPT ![s].pc = "create"]
            /\ UNCHANGED resp
    /\ UNCHANGED <<users, moods, mood_seq, journals, achievements, assignments, notes,
                   today, sk>>

\* views.py:216-223, api.py:253-262  the insert.  Neither handler catches the
\* IntegrityError of a refused insert (the web view catches User.DoesNotExist
\* only): it leaves the handler as an exception.
assign_patient_create(via, s) ==
    LET made == AssignmentCreate(assignments, req[s].user, req[s].patient)
    IN  /\ req[s].op = "assign_patient" /\ req[s].via = via /\ req[s].pc = "create"
        /\ assignments' = made.rows
        /\ resp' = [op |-> "assign_patient", via |-> via, user |-> req[s].user,
                    outcome |-> IF made.ok THEN "assigned" ELSE "IntegrityError"]
        /\ req' = [req EXCEPT ![s] = Idle]
        /\ UNCHANGED <<users, moods, mood_seq, journals, achievements, notes, today, sk>>

\* The soft-deactivation of an assignment: its is_active flag is cleared.
deactivate_assignment(a) ==
    /\ a \in assignments /\ a.is_active
    /\ assignments' = (assignments \ {a}) \cup {[a EXCEPT !.is_active = FALSE]}
    /\ UNCHANGED <<users, moods, mood_seq, journals, achievements, notes, today, req,
                   resp, sk>>

-----------------------------------------------------------------------------
(* calculate_streak *)

\* MoodEntry.objects.filter(user=user, date__date=check_date)
EntriesOn(ms, u, check_date) == {m \in ms : m.user = u /\ m.day = check_date}

\* check_date -= timedelta(days=1), decremented twice
PreviousDay_Skipping(check_date) == check_date - 2

\* check_date -= timedelta(days=1)
PreviousDay(check_date) == check_date - 1

\* views.py:467-479  the loop, as a recursion on (check_date, streak)
RECURSIVE streak_loop(_, _, _, _)
streak_loop(ms, u, check_date, streak) ==
    IF EntriesOn(ms, u, check_date) # {}
    THEN streak_loop(ms, u, PreviousDay(check_date), streak + 1)
    ELSE streak

\* views.py:467-479, api.py:334-347 (the same text in both files)
calculate_streak(ms, u, now) == streak_loop(ms, u, now, 0)

\* views.py:469-471  today = timezone.now().date(); streak = 0; check_date = today
calculate_streak_call(via, u) ==
    /\ sk.pc \in {"none", "returned"}
    /\ sk' = [pc |-> "loop", via |-> via, user |-> u, today |-> today, streak |-> 0,
              check_date |-> today, checks |-> 0]
    /\ UNCHANGED <<users, moods, mood_seq, journals, achievements, assignments, notes,
                   today, req, resp>>

\* a turn that asks the database twice whether the day has an entry
calculate_streak_turn_Requery ==
    /\ sk.pc = "loop"
    /\ IF EntriesOn(moods, sk.user, sk.check_date) # {}
       THEN sk' = [sk EXCEPT !.streak = sk.streak + 1,
                             !.check_date = PreviousDay(sk.check_date),
                             !.checks = sk.checks + 2]
       ELSE sk' = [sk EXCEPT !.pc = "returned", !.checks = sk.checks + 1]
    /\ UNCHANGED <<users, moods, mood_seq, journals, achievements, assignments, notes,
                   today, req, resp>>
\* views.py:473-479  one turn of "while True": the exists() query, then the
\* increment and the step back, or the break and the return.
calculate_streak_turn ==
    /\ sk.pc = "loop"
    /\ IF EntriesOn(moods, sk.user, sk.check_date) # {}
       THEN sk' = [sk EXCEPT !.streak = sk.streak + 1,
                             !.check_date = PreviousDay(sk.check_date),
                             !.checks = sk.checks + 1]
       ELSE sk' = [sk EXCEPT !.pc = "returned", !.checks = sk.checks + 1]
    /\ UNCHANGED <<users, moods, mood_seq, journals, achievements, assignments, notes,
                   today, req, resp>>

-----------------------------------------------------------------------------
(* dashboard.Journal *)

JournalRow(id, u, title, content) == [id |-> id, user |-> u, title |-> title, content |-> content]

\* the journals of every user: the filter on the user left out
JournalsOf_Everyone(js, u) == js
\* Journal.objects.filter(user=user)
JournalsOf(js, u) == {j \in js : j.user = u}

\* views.py:84-93  add_journal: a valid JournalForm has a title and a content
add_journal(u, title, content) ==
    /\ Cardinality(journals) < MaxJournals
    /\ IF title # "" /\ content # ""
       THEN /\ journals' = journals \cup {JournalRow(NextId(journals), u, title, content)}
            /\ resp' = [op |-> "add_journal", user |-> u, outcome |-> "added"]
       ELSE /\ resp' = [op |-> "add_journal", user |-> u, outcome |-> "form_invalid"]
            /\ UNCHANGED journals
    /\ UNCHANGED <<users, moods, mood_seq, achievements, assignments, notes, today, req, sk>>

-----------------------------------------------------------------------------
(* What a doctor is shown of a patient *)

\* get_object_or_404(User, id=patient_id, role='patient') and
\* User.objects.get(id=patient_id, role='patient')
PatientById(id) == {r \in users : r.id = id /\ r.role = "patient"}

PatientData(p) ==
    [mood_entries |-> MoodsOf(moods, p),
     journals |-> JournalsOf(journals, p),
     total_moods |-> MoodCount(moods, p),
     total_journals |-> Cardinality(JournalsOf(journals, p)),
     current_streak |-> calculate_streak(moods, p, today)]

\* views.py:121-179  patient_detail: the decorator, the lookup of the
\* patient, then the patient's entries, journals and statistics.  No query
\* reads DoctorPatientAssignment.
patient_detail(d, patient_id) ==
    IF ~doctor_required(d) THEN [status |-> 302]
    ELSE IF PatientById(patient_id) = {} THEN [status |-> 404]
    ELSE [status |-> 200, patient |-> patient_id, data |-> PatientData(patient_id)]

\* api.py:265-330  patient_details: the decorator, the lookup of the patient,
\* the active-assignment check, then the same data.
patient_details(d, patient_id) ==
    IF ~doctor_required(d) THEN [status |-> 302]
    ELSE IF PatientById(patient_id) = {} THEN [status |-> 404]
    ELSE IF ~ActiveAssignment(assignments, d, patient_id) THEN [status |-> 403]
    ELSE [status |-> 200, patient |-> patient_id, data |-> PatientData(patient_id)]

-----------------------------------------------------------------------------
(* dashboard.DoctorNote *)

NoteRow(id, p, d, note, visible) ==
    [id |-> id, patient |-> p, doctor |-> d, note |-> note, is_visible_to_patient |-> visible]

CanCreateNote == Cardinality(notes) < MaxNotes

\* views.py:181-197  add_doctor_note (POST): the decorator, the lookup of the
\* patient, then the insert.  No query reads DoctorPatientAssignment.
add_doctor_note(d, patient_id, note, is_visible) ==
    /\ CanCreateNote
    /\ IF ~doctor_required(d)
       THEN /\ resp' = [op |-> "add_doctor_note", user |-> d, outcome |-> "denied"]
            /\ UNCHANGED notes
       ELSE IF PatientById(patient_id) = {}
       THEN /\ resp' = [op |-> "add_doctor_note", user |-> d, outcome |-> "not_found"]
            /\ UNCHANGED notes
       ELSE /\ notes' = notes \cup {NoteRow(NextId(notes), patient_id, d, note, is_visible)}
            /\ resp' = [op |-> "add_doctor_note", user |-> d, outcome |-> "created"]
    /\ UNCHANGED <<users, moods, mood_seq, journals, achievements, assignments, today,
                   req, sk>>

\* api.py:112-145  DoctorNoteViewSet.create_for_patient: the role check, the
\* lookup of the patient, the active-assignment check, then
\* serializer.save(doctor=request.user, patient=patient).
create_for_patient(d, patient_id, note, is_visible) ==
    /\ CanCreateNote
    /\ IF UserRow(d).role # "doctor"
       THEN /\ resp' = [op |-> "create_for_patient", user |-> d, outcome |-> "forbidden"]
            /\ UNCHANGED notes
       ELSE IF PatientById(patient_id) = {}
       THEN /\ resp' = [op |-> "create_for_patient", user |-> d, outcome |-> "not_found"]
            /\ UNCHANGED notes
       ELSE IF ~ActiveAssignment(assignments, d, patient_id)
       THEN /\ resp' = [op |-> "create_for_patient", user |-> d, outcome |-> "forbidden"]
            /\ UNCHANGED notes
       ELSE /\ notes' = notes \cup {NoteRow(NextId(notes), patient_id, d, note, is_visible)}
            /\ resp' = [op |-> "create_for_patient", user |-> d, outcome |-> "created"]
    /\ UNCHANGED <<users, moods, mood_seq, journals, achievements, assignments, today,
                   req, sk>>

\* api.py:98-101  DoctorNoteViewSet(viewsets.ModelViewSet), POST doctor-notes/:
\* any authenticated user; serializers.py:78-82 leaves patient and doctor
\* writable, so the row takes both from the request body.
doctor_note_create(u, patient_field, doctor_field, note, is_visible) ==
    /\ CanCreateNote
    /\ IF patient_field \in {r.id : r \in users} /\ doctor_field \in {r.id : r \in users}
       THEN /\ notes' = notes \cup
                   {NoteRow(NextId(notes), patient_field, doctor_field, note, is_visible)}
            /\ resp' = [op |-> "doctor_note_create", user |-> u, outcome |-> "created"]
       ELSE /\ resp' = [op |-> "doctor_note_create", user |-> u, outcome |-> "bad_request"]
            /\ UNCHANGED notes
    /\ UNCHANGED <<users, moods, mood_seq, journals, achievements, assignments, today,
                   req, sk>>

\* order_by('-date')[:k]: the k newest rows (dates grow with the primary key)
RECURSIVE Newest(_, _)
Newest(rows, k) ==
    IF k = 0 \/ rows = {} THEN {}
    ELSE LET top == CHOOSE r \in rows : \A o \in rows : o.id <= r.id
         IN  {top} \cup Newest(rows \ {top}, k - 1)

\* views.py:35-38, api.py:159-162
\* DoctorNote.objects.filter(patient=user, is_visible_to_patient=True).order_by('-date')[:5]
VisibleNotes(p) == {n \in notes : n.patient = p /\ n.is_visible_to_patient}

\* views.py:34-38  the doctor notes of patient_dashboard
patient_dashboard_notes(p) == Newest(VisibleNotes(p), 5)

\* api.py:159-162  the doctor notes of dashboard_stats, for a patient
dashboard_stats_notes(p) == Newest(VisibleNotes(p), 5)

\* api.py:103-110  DoctorNoteViewSet.get_queryset, the rows a list returns
doctor_note_list(u) ==
    IF UserRow(u).role = "doctor"
    THEN {n \in notes : n.doctor = u}
    ELSE {n \in notes : n.patient = u /\ n.is_visible_to_patient}

-----------------------------------------------------------------------------
(* Inputs of the requests *)

\* tags posted with a mood
TagInputs == {"", "work"}

-----------------------------------------------------------------------------
(* The achievement rule engine under concurrent mood logging *)

\* The history the run starts from: p1 has logged a number of entries on
\* earlier days through the web view, one request at a time, just short of
\* the first or of the second threshold.
SeedCounts == {WeekWarriorCount - 2, MonthlyMasterCount - 2}

SeedMoods(n) == {MoodRow(i, "p1", 5, "", "", 0) : i \in 1..n}

InitAchievements ==
    /\ users = SavedUsers
    /\ \E n \in SeedCounts :
          /\ moods = SeedMoods(n)
          /\ mood_seq = n
          /\ achievements = check_achievements({}, SeedMoods(n), "p1")
    /\ journals = {}
    /\ assignments = {}
    /\ notes = {}
    /\ today = 1
    /\ req = [s \in Slots |-> Idle]
    /\ resp = [op |-> "none"]
    /\ sk = NoStreak

NextAchievements ==
    \/ \E s \in Slots, u \in Patients, mood \in {0, 7} : log_mood_save(s, u, mood, "", "")
    \/ \E s \in Slots : log_mood_count(s)
    \/ \E s \in Slots : log_mood_check_ww(s)
    \/ \E s \in Slots : log_mood_create_ww(s)
    \/ \E s \in Slots : log_mood_check_mm(s)
    \/ \E s \in Slots : log_mood_create_mm(s)
    \/ \E u \in Patients, mood \in {0, 7} : api_mood_create(u, mood, "")

SpecAchievements == InitAchievements /\ [][NextAchievements]_vars

AchievementsOf(ach, u, title) == {a \in ach : a.user = u /\ a.title = title}

\* C1: under any interleaving of log_mood requests there is at most one
\* Achievement row per (user, title).
C1_OneAchievementPerUserTitle ==
    \A u \in UserIds, title \in {WeekWarrior, MonthlyMaster} :
        Cardinality(AchievementsOf(achievements, u, title)) <= 1

\* C2: once every mood-entry creation has completed (no request is between
\* its save and the end of its achievement check), a user with at least 7
\* entries has a 'Week Warrior' achievement of 10 points and a user with at
\* least 30 entries has a 'Monthly Master' achievement of 50 points.
C2_RuleAppliedAfterEveryCreation ==
    Quiescent =>
        \A u \in UserIds :
            /\ MoodCount(moods, u) >= WeekWarriorCount =>
                  \E a \in AchievementsOf(achievements, u, WeekWarrior) :
                      a.points = WeekWarriorPoints
            /\ MoodCount(moods, u) >= MonthlyMasterCount =>
                  \E a \in AchievementsOf(achievements, u, MonthlyMaster) :
                      a.points = MonthlyMasterPoints

\* C3: check_achievements is idempotent when run sequentially: a second run
\* right after the first, with no entry created in between, leaves the
\* achievement table exactly as the first run left it, and after the 7th
\* entry the first run leaves exactly one 'Week Warrior' where none existed.
C3_CheckAchievementsIdempotent ==
    \A u \in UserIds :
        LET once == check_achievements(achievements, moods, u)
            twice == check_achievements(once, moods, u)
        IN  /\ twice = once
            /\ (MoodCount(moods, u) >= WeekWarriorCount
                  /\ AchievementsOf(achievements, u, WeekWarrior) = {})
               => Cardinality(AchievementsOf(twice, u, WeekWarrior)) = 1

\* A user has reached 7 entries with no 'Week Warrior' yet, so the first of
\* the two runs creates one.
C3_Witness ==
    \E u \in UserIds :
        /\ MoodCount(moods, u) >= WeekWarriorCount
        /\ AchievementsOf(achievements, u, WeekWarrior) = {}
        /\ check_achievements(achievements, moods, u) # achievements

-----------------------------------------------------------------------------
(* Assigning patients to doctors *)

\* identifiers posted: p1's, p1's in lower case with blanks around it, p2's
\* in lower case, one no patient has, and none
PatientIdInputs ==
    {<<"A", "B">>, <<" ", "a", "b", " ">>, <<"b", "a">>, <<"B", "B">>, <<>>}

EmptyStore ==
    /\ users = SavedUsers
    /\ moods = {}
    /\ mood_seq = 0
    /\ journals = {}
    /\ achievements = {}
    /\ assignments = {}
    /\ notes = {}
    /\ today = 1
    /\ req = [s \in Slots |-> Idle]
    /\ resp = [op |-> "none"]
    /\ sk = NoStreak

InitAssign == EmptyStore

NextAssign ==
    \/ \E s \in Slots, u \in UserIds, raw \in PatientIdInputs :
          assign_patient_start("web", s, u, raw)
    \/ \E s \in Slots : assign_patient_exists("web", s)
    \/ \E s \in Slots : assign_patient_create("web", s)
    \/ \E s \in Slots, u \in UserIds, raw \in PatientIdInputs :
          assign_patient_start("api", s, u, raw)
    \/ \E s \in Slots : assign_patient_exists("api", s)
    \/ \E s \in Slots : assign_patient_create("api", s)
    \/ \E a \in assignments : deactivate_assignment(a)

SpecAssign == InitAssign /\ [][NextAssign]_vars

\* C8: an assign_patient request of a doctor ends as 'not found', 'already
\* assigned' or a successful assignment, never as an exception.
C8_AssignNeverRaises ==
    (resp.op = "assign_patient" /\ doctor_required(resp.user))
        => resp.outcome \in {"not_found", "already_assigned", "assigned"}

\* C9: there is at most one DoctorPatientAssignment row per (doctor, patient).
C9_UniqueDoctorPatient ==
    \A d \in UserIds, p \in UserIds : Cardinality(AssignmentsOf(assignments, d, p)) <= 1

\* A second insert of a pair was attempted and refused, and the pair's one
\* row is there.
C9_Witness ==
    /\ resp.op = "assign_patient"
    /\ resp.outcome = "IntegrityError"
    /\ \E a \in assignments : a.doctor = resp.user

-----------------------------------------------------------------------------
(* The life of a mood entry *)

InitMood == EmptyStore

\* The store holds fewer than WeekWarriorCount entries in every state of this
\* specification, so log_mood's two Achievement inserts are never enabled
\* and are left out of the next-state relation.
NextMood ==
    \/ \E u \in Patients, mood \in {0, 4}, tags \in TagInputs :
          log_mood_save("w1", u, mood, "", tags)
    \/ log_mood_count("w1")
    \/ log_mood_check_ww("w1")
    \/ log_mood_check_mm("w1")
    \/ \E u \in Patients, mood \in {0, 4} : api_mood_create(u, mood, "")
    \/ \E u \in Patients, id \in 1..(mood_seq + 1), mood \in {0, 7} :
          api_mood_update(u, id, mood, "slept badly")
    \/ \E u \in Patients, id \in 1..(mood_seq + 1), mood \in {0, 7} :
          api_mood_partial_update(u, id, mood)
    \/ \E u \in Patients, id \in 1..(mood_seq + 1) : api_mood_destroy(u, id)

SpecMood == InitMood /\ [][NextMood]_vars

\* C7: mood entries are immutable and append-only: in every step of every
\* user-reachable operation each existing MoodEntry row is kept as it is.
C7_MoodEntriesImmutable == [][\A m \in moods : m \in moods']_vars

-----------------------------------------------------------------------------
(* Doctors, their patients' data and their notes *)

DoctorPatientPairs == Doctors \X Patients

\* The assignment tables that assign requests leave: up to MaxAssignments
\* active rows of distinct pairs, created in any order.
AssignmentTables ==
    UNION {
        {{AssignmentRow(i, order[i][1], order[i][2], TRUE) : i \in 1..n} :
            order \in {o \in [1..n -> DoctorPatientPairs] :
                          \A i, j \in 1..n : o[i] = o[j] => i = j}}
        : n \in 0..MaxAssignments}

InitNotes ==
    /\ users = SavedUsers
    /\ moods = {MoodRow(1, "p1", 4, "", "", 1), MoodRow(2, "p2", 7, "", "", 1)}
    /\ mood_seq = 2
    /\ journals = {}
    /\ achievements = {}
    /\ assignments \in AssignmentTables
    /\ notes = {}
    /\ today = 1
    /\ req = [s \in Slots |-> Idle]
    /\ resp = [op |-> "none"]
    /\ sk = NoStreak

NextNotes ==
    \/ \E a \in assignments : deactivate_assignment(a)
    \/ \E u \in Patients, title \in {"", "monday"} : add_journal(u, title, "text")
    \/ \E d \in UserIds, p \in UserIds, visible \in BOOLEAN :
          add_doctor_note(d, p, "rest", visible)
    \/ \E d \in UserIds, p \in UserIds, visible \in BOOLEAN :
          create_for_patient(d, p, "rest", visible)
    \/ \E pf \in {"p1", "nobody"}, df \in {"d1", "p2"} :
          doctor_note_create("p2", pf, df, "rest", TRUE)

SpecNotes == InitNotes /\ [][NextNotes]_vars

\* C4: a doctor is shown a patient's entries, journals and statistics, by
\* the web patient_detail view and by the API patient_details endpoint, only
\* while an active assignment of the pair exists.
C4_DataOnlyForAssignedDoctor ==
    \A d \in UserIds, p \in UserIds :
        (patient_detail(d, p).status = 200 \/ patient_details(d, p).status = 200)
            => ActiveAssignment(assignments, d, p)

\* C5: every DoctorNote that is created is authored by a doctor who has an
\* active assignment to the note's patient when it is created.
C5_NotesOnlyByAssignedDoctor ==
    [][\A n \in notes' \ notes :
          /\ UserRow(n.doctor).role = "doctor"
          /\ ActiveAssignment(assignments, n.doctor, n.patient)]_vars

\* C6: a note is returned to its patient (patient dashboard, dashboard_stats,
\* the note list) only when it is flagged visible and its author has an
\* active assignment to the patient.
C6_NotesShownOnlyFromAssignedDoctor ==
    \A p \in Patients :
        \A n \in patient_dashboard_notes(p) \cup dashboard_stats_notes(p) \cup doctor_note_list(p) :
            /\ n.is_visible_to_patient
            /\ ActiveAssignment(assignments, n.doctor, p)

-----------------------------------------------------------------------------
(* The streak of a logging history *)

\* The entries of p1 lie on any set of days up to today; p2 has logged on
\* every day or never.
InitStreak ==
    /\ users = SavedUsers
    /\ today \in 0..MaxDay
    /\ \E days \in SUBSET (0..today), others \in {{}, 0..today} :
          moods = {MoodRow(d + 1, "p1", 5, "", "", d) : d \in days}
                    \cup {MoodRow(today + 2 + d, "p2", 5, "", "", d) : d \in others}
    /\ mood_seq = 2 * today + 2
    /\ journals = {}
    /\ achievements = {}
    /\ assignments = {}
    /\ notes = {}
    /\ req = [s \in Slots |-> Idle]
    /\ resp = [op |-> "none"]
    /\ sk = NoStreak

NextStreak ==
    \/ \E u \in Patients : calculate_streak_call("web", u)
    \/ \E u \in Patients : calculate_streak_call("api", u)
    \/ calculate_streak_turn

SpecStreak == InitStreak /\ [][NextStreak]_vars

HasEntryOn(u, day) == \E m \in moods : m.user = u /\ m.day = day

\* The largest k such that each of the k days now, now-1, ..., now-(k-1)
\* has an entry of u.
LongestRunEndingAt(u, now) ==
    Max({k \in 0..(now + 1) : \A i \in 0..(k - 1) : HasEntryOn(u, now - i)})

\* C10: calculate_streak returns the largest k such that every one of the k
\* days today, today-1, ..., today-(k-1) has an entry of the user: 0 when
\* there is none today, and entries beyond the first gap do not count.
C10_StreakIsLongestRun ==
    /\ sk.pc = "returned" => sk.streak = LongestRunEndingAt(sk.user, sk.today)
    /\ \A u \in Patients :
          /\ calculate_streak(moods, u, today) = LongestRunEndingAt(u, today)
          /\ ~HasEntryOn(u, today) => calculate_streak(moods, u, today) = 0

\* The call returned 2 for entries today, yesterday and 3 days ago with none
\* on the day before yesterday.
C10_Witness ==
    /\ sk.pc = "returned"
    /\ sk.streak = 2
    /\ HasEntryOn(sk.user, sk.today)
    /\ HasEntryOn(sk.user, sk.today - 1)
    /\ ~HasEntryOn(sk.user, sk.today - 2)
    /\ HasEntryOn(sk.user, sk.today - 3)

-----------------------------------------------------------------------------
(* Numbers of the analytics functions *)

\* A Python float is modelled by the exact rational [n / d] (d > 0) it
\* approximates.  Where the rounding of a float operation decides an outcome
\* it is modelled explicitly (FloatDivError, RoundTenth) or, when the operation
\* chain is long, by the set of outcomes either rounding direction gives.
Frac(n, d) == [n |-> n, d |-> d]

FracOfInt(i) == Frac(i, 1)

FracLess(a, b) == a.n * b.d < b.n * a.d

FracLeq(a, b) == a.n * b.d <= b.n * a.d

FracEq(a, b) == a.n * b.d = b.n * a.d

Abs(i) == IF i < 0 THEN -i ELSE i

RECURSIVE Gcd(_, _)
Gcd(a, b) == IF b = 0 THEN a ELSE Gcd(b, a % b)

\* the rational in lowest terms
Reduce(a) ==
    LET g == Gcd(Abs(a.n), a.d) IN Frac(a.n \div g, a.d \div g)

\* a + b over the least common denominator, in lowest terms
FracAdd(a, b) ==
    LET g == Gcd(a.d, b.d)
    IN  Reduce(Frac(a.n * (b.d \div g) + b.n * (a.d \div g), (a.d \div g) * b.d))

FracSub(a, b) == Frac(a.n * b.d - b.n * a.d, a.d * b.d)

\* sum(values)
RECURSIVE sum(_)
sum(values) == IF values = <<>> THEN 0 ELSE Head(values) + sum(Tail(values))

\* values[:k]
Take(values, k) == SubSeq(values, 1, k)

\* values[k:]
Drop(values, k) == SubSeq(values, k + 1, Len(values))

RECURSIVE Pow2(_)
Pow2(m) == IF m = 0 THEN 1 ELSE 2 * Pow2(m - 1)

\* 2^m mod k, by repeated doubling
RECURSIVE Pow2Mod(_, _)
Pow2Mod(m, k) == IF m = 0 THEN 1 % k ELSE (2 * Pow2Mod(m - 1, k)) % k

\* The binary exponent of s / k for s >= k > 0: the e with 2^e <= s/k < 2^(e+1)
RECURSIVE BinaryExponent(_, _)
BinaryExponent(s, k) == IF s < 2 * k THEN 0 ELSE 1 + BinaryExponent(s, 2 * k)

\* The float s / k of two positive ints with s >= k is the quotient rounded
\* to 53 significant bits (binary64), that is to the nearest multiple of
\* ulp = 2^(e - 52), ties to even.  The result is
\* the rounding error err = fl(s/k) - s/k as the pair (c, e) with
\* err = c * 2^(e - 52) / k:  r is the remainder of s * 2^(52 - e) by k, and the
\* quotient is rounded down (c = -r) or up (c = k - r).
FloatDivError(s, k) ==
    LET e    == BinaryExponent(s, k)
        m    == 52 - e
        r    == ((s % k) * Pow2Mod(m, k)) % k
        r2   == ((s % (2 * k)) * Pow2Mod(m, 2 * k)) % (2 * k)
        odd  == r2 >= k
        up   == 2 * r > k \/ (2 * r = k /\ odd)
    IN  [c |-> IF up THEN k - r ELSE -r, e |-> e]

\* fl(sa / ka) - fl(sb / kb) > 0.5, for quotients in [1, 16).  Both floats are
\* multiples of 2^-52, so the float subtraction is exact wherever the
\* difference is near 0.5 and the comparison is that of the two floats' exact
\* values: the sign of the exact difference sa/ka - sb/kb - 1/2 when that is
\* not 0 (it is then at least 1/(2*ka*kb), far above the rounding errors for
\* the lengths of the model), and the sign of the difference of the two
\* rounding errors when it is 0.
FloatExceedsByHalf(sa, ka, sb, kb) ==
    LET exact == 2 * sa * kb - 2 * sb * ka - ka * kb
        ea    == FloatDivError(sa, ka)
        eb    == FloatDivError(sb, kb)
        errs  == ea.c * Pow2(ea.e) * kb - eb.c * Pow2(eb.e) * ka
    IN  exact > 0 \/ (exact = 0 /\ errs > 0)

\* round(s / k, 1) of the float s / k (s >= k > 0), as a number of tenths:
\* the nearest tenth of the float's exact value, which on a tie of the
\* rational s / k is decided by the float's rounding error, and by
\* round-half-even when the float is the tie itself.
RoundTenth(s, k) ==
    LET t   == (10 * s) \div k
        rem == (10 * s) % k
        err == FloatDivError(s, k).c
    IN  IF 2 * rem < k THEN t
        ELSE IF 2 * rem > k THEN t + 1
        ELSE IF err > 0 THEN t + 1
        ELSE IF err < 0 THEN t
        ELSE IF t % 2 = 0 THEN t ELSE t + 1

-----------------------------------------------------------------------------
(* analyze_mood_trends *)

\* views.py:493  timedelta(days=30)
TrendWindowDays == 30

\* The clock of the model ticks in days: an entry's day is its timestamp.
\* Always-true variant of the window filter.
InTrendWindow_Always(m, now) == TRUE

\* date__gte=thirty_days_ago
InTrendWindow(m, now) == m.day >= now - TrendWindowDays

\* .order_by('date'): auto_now_add timestamps grow with the primary key
RECURSIVE OrderByDate(_)
OrderByDate(rows) ==
    IF rows = {} THEN <<>>
    ELSE LET first == CHOOSE r \in rows : \A o \in rows : r.id <= o.id
         IN  <<first>> \o OrderByDate(rows \ {first})

\* MoodEntry.objects.filter(user=user, date__gte=thirty_days_ago).order_by('date')
TrendWindow(ms, u, now) == OrderByDate({m \in MoodsOf(ms, u) : InTrendWindow(m, now)})

MoodValues(rows) == [i \in 1..Len(rows) |-> rows[i].mood]

\* views.py:500-504, api.py:359-363  the result for an empty window
NoDataResult ==
    [trend |-> "neutral",
     message |-> "Start logging your mood to get personalized insights!",
     recommendations |-> <<"Log your daily mood", "Write in your journal",
                           "Try breathing exercises">>]

\* sum(half) / len(half) if half else avg_mood, as the pair of the dividend
\* and the divisor of the float division
HalfAverage(half, y_values) ==
    IF half # <<>> THEN [s |-> sum(half), k |-> Len(half)]
    ELSE [s |-> sum(y_values), k |-> Len(y_values)]

\* views.py:510-555, api.py:367-386  the trend label.  With fewer than 3
\* values trend_slope = 0; otherwise trend_slope = second_avg - first_avg over
\* y_values[:n//2] and y_values[n//2:], compared with 0.5 and -0.5.
TrendLabel(y_values) ==
    LET n           == Len(y_values)
        first_avg   == HalfAverage(Take(y_values, n \div 2), y_values)
        second_avg  == HalfAverage(Drop(y_values, n \div 2), y_values)
    IN  IF n >= 3
        THEN IF FloatExceedsByHalf(second_avg.s, second_avg.k, first_avg.s, first_avg.k)
             THEN "improving"
             ELSE IF FloatExceedsByHalf(first_avg.s, first_avg.k,
                                        second_avg.s, second_avg.k)
                  THEN "declining"
                  ELSE "stable"
        ELSE "stable"

\* views.py:532, 540, 549 and api.py:380, 383, 386
TrendMessage(trend) ==
    CASE trend = "improving" ->
            "Your mood has been trending upward! Keep up the great work."
      [] trend = "declining" ->
            "Your mood has been trending downward. Consider reaching out for support."
      [] OTHER ->
            "Your mood has been relatively stable. This is a good foundation to build upon."

\* views.py:533-555
TrendRecommendations(trend) ==
    CASE trend = "improving" ->
            <<"Continue your current wellness routine",
              "Consider sharing your progress with your doctor",
              "Try new activities that bring you joy">>
      [] trend = "declining" ->
            <<"Practice deep breathing exercises",
              "Reach out to your assigned doctor",
              "Try mindfulness activities",
              "Consider professional counseling if needed">>
      [] OTHER ->
            <<"Maintain your current routine",
              "Try new wellness activities",
              "Continue journaling your thoughts",
              "Stay connected with your support network">>

\* views.py:558-569  avg_mood >= 8, >= 6, >= 4 on the float total / n: the
\* thresholds are floats and the division is monotone, so the comparison is
\* that of the rationals.
MoodLevel(total, n) ==
    IF total >= 8 * n THEN "excellent"
    ELSE IF total >= 6 * n THEN "good"
    ELSE IF total >= 4 * n THEN "moderate"
    ELSE "needs_attention"

\* views.py:560, 563, 566, 569
AdditionalMessage(mood_level) ==
    CASE mood_level = "excellent" ->
            "You're doing exceptionally well! Consider how you can maintain this positive state."
      [] mood_level = "good" ->
            "You're in a good place. Small improvements can make a big difference."
      [] mood_level = "moderate" ->
            "There's room for improvement. Focus on self-care and professional support."
      [] OTHER ->
            "Consider reaching out to mental health professionals for additional support."

\* views.py:490-579  analyze_mood_trends of the web views
analyze_mood_trends_web(ms, u, now) ==
    LET recent_moods == TrendWindow(ms, u, now)
        y_values     == MoodValues(recent_moods)
        trend        == TrendLabel(y_values)
        mood_level   == MoodLevel(sum(y_values), Len(y_values))
    IN  IF recent_moods = <<>> THEN NoDataResult
        ELSE [trend |-> trend,
              mood_level |-> mood_level,
              avg_mood |-> Frac(RoundTenth(sum(y_values), Len(y_values)), 10),
              message |-> TrendMessage(trend),
              additional_message |-> AdditionalMessage(mood_level),
              recommendations |-> TrendRecommendations(trend),
              data_points |-> Len(recent_moods)]

\* api.py:350-393  analyze_mood_trends of the REST API
analyze_mood_trends_api(ms, u, now) ==
    LET recent_moods == TrendWindow(ms, u, now)
        y_values     == MoodValues(recent_moods)
        trend        == TrendLabel(y_values)
    IN  IF recent_moods = <<>> THEN NoDataResult
        ELSE [trend |-> trend,
              avg_mood |-> Frac(RoundTenth(sum(y_values), Len(y_values)), 10),
              message |-> TrendMessage(trend),
              data_points |-> Len(recent_moods)]

analyze_mood_trends(via, ms, u, now) ==
    IF via = "web" THEN analyze_mood_trends_web(ms, u, now)
    ELSE analyze_mood_trends_api(ms, u, now)

\* views.py:47  patient_dashboard, api.py:174  dashboard_stats: the call
\* mood_analysis = analyze_mood_trends(request.user)
analyze_mood_trends_call(via, u) ==
    /\ resp' = [op |-> "analyze_mood_trends", via |-> via, user |-> u,
                result |-> analyze_mood_trends(via, moods, u, today)]
    /\ UNCHANGED <<users, moods, mood_seq, journals, achievements, assignments, notes,
                   today, req, sk>>

-----------------------------------------------------------------------------
(* Trend analysis over mood histories *)

\* the longest history in the 30-day window
MaxHistory == 12

\* A half of a history: j entries of value lo + 1, then entries of value lo.
HalfValues(h, lo, j) == [i \in 1..h |-> IF i <= j THEN lo + 1 ELSE lo]

\* The histories of n entries: a first and a second half of n div 2 and
\* n - n div 2 entries.
Histories(n) ==
    {HalfValues(n \div 2, lo1, j1) \o HalfValues(n - n \div 2, lo2, j2) :
        lo1 \in {1, 2, 9}, lo2 \in {1, 2, 9},
        j1 \in 0..(n \div 2), j2 \in 0..(n - n \div 2)}

\* p1 has logged the values of a history on the last n days, one entry a day;
\* p2 has never logged, or logged twice long before the window.
InitTrend ==
    /\ users = SavedUsers
    /\ today = TrendWindowDays + MaxHistory
    /\ \E n \in 0..MaxHistory, old \in {0, 2} : \E values \in Histories(n) :
          /\ moods = {MoodRow(i, "p2", 3, "", "", i - 1) : i \in 1..old}
                       \cup {MoodRow(old + i, "p1", values[i], "", "", today - n + i) :
                                i \in 1..n}
          /\ mood_seq = old + n
    /\ journals = {}
    /\ achievements = {}
    /\ assignments = {}
    /\ notes = {}
    /\ req = [s \in Slots |-> Idle]
    /\ resp = [op |-> "none"]
    /\ sk = NoStreak

NextTrend ==
    \/ \E u \in Patients : analyze_mood_trends_call("web", u)
    \/ \E u \in Patients : analyze_mood_trends_call("api", u)

SpecTrend == InitTrend /\ [][NextTrend]_vars

\* The mood values of the user's entries of the last 30 days, oldest first.
ValuesOfLast30Days(u) ==
    MoodValues(OrderByDate({m \in moods : m.user = u /\ m.day >= today - TrendWindowDays}))

\* mean(values[n div 2 ..]) - mean(values[.. n div 2]) as a rational
HalvesSlope(values) ==
    LET h == Len(values) \div 2
    IN  FracSub(Frac(sum(Drop(values, h)), Len(values) - h), Frac(sum(Take(values, h)), h))

LabelOfSlope(values) ==
    IF Len(values) < 3 THEN "stable"
    ELSE IF FracLess(Frac(1, 2), HalvesSlope(values)) THEN "improving"
    ELSE IF FracLess(HalvesSlope(values), Frac(-1, 2)) THEN "declining"
    ELSE "stable"

\* C11: for a non-empty window of n values the label is 'stable' when n < 3,
\* and for n >= 3 it is 'improving' iff the mean of the later half exceeds the
\* mean of the earlier (shorter) half by more than 0.5, 'declining' iff it is
\* lower by more than 0.5, 'stable' otherwise: a slope of exactly 0.5 or -0.5
\* is 'stable'.
C11_TrendLabelBySlope ==
    (resp.op = "analyze_mood_trends" /\ ValuesOfLast30Days(resp.user) # <<>>)
        => resp.result.trend = LabelOfSlope(ValuesOfLast30Days(resp.user))

\* C16: with no entry in the 30-day window the result is the fixed no-data
\* record: trend 'neutral', the start-logging message and the three generic
\* recommendations.
C16_NoDataResult ==
    (resp.op = "analyze_mood_trends" /\ ValuesOfLast30Days(resp.user) = <<>>)
        => /\ resp.result.trend = "neutral"
           /\ resp.result.message = "Start logging your mood to get personalized insights!"
           /\ resp.result.recommendations =
                 <<"Log your daily mood", "Write in your journal", "Try breathing exercises">>

\* The analysis was run for a user whose only entries are older than the
\* window, and returned the no-data result.
C16_Witness ==
    /\ resp.op = "analyze_mood_trends"
    /\ MoodsOf(moods, resp.user) # {}
    /\ ValuesOfLast30Days(resp.user) = <<>>
    /\ resp.result.trend = "neutral"

\* C17: every result of the trend analysis, web or API, empty window or not,
\* has the fields trend, avg_mood, message, recommendations and data_points,
\* and data_points is the number of entries in the window.
C17_ResultHasAllFields ==
    resp.op = "analyze_mood_trends"
        => /\ {"trend", "avg_mood", "message", "recommendations", "data_points"}
                 \subseteq DOMAIN resp.result
           /\ resp.result.data_points = Len(ValuesOfLast30Days(resp.user))

-----------------------------------------------------------------------------
(* predict_next_mood and calculate_prediction_confidence *)

\* The outcome of a call: a returned value or a raised exception.
Returned(value) == [outcome |-> "returned", value |-> value]

Raised(exception) == [outcome |-> "raised", value |-> exception]

\* a / b of two ints, the divisor possibly 0
Divide(a, b) ==
    IF b = 0 THEN Raised("ZeroDivisionError")
    ELSE IF b < 0 THEN Returned(Reduce(Frac(-a, -b)))
    ELSE Returned(Reduce(Frac(a, b)))

\* round(x, 1) of a float x that a chain of float operations computed for the
\* rational a, in tenths.  The nearest tenth of a when a is no tie (the
\* distance of a from a tie is then far above the error of the chain for the
\* lengths of the model); either neighbour when a is a tie.
RoundTenthOutcomes(a) ==
    LET t   == (10 * a.n) \div a.d
        rem == (10 * a.n) % a.d
    IN  IF 2 * rem < a.d THEN {t}
        ELSE IF 2 * rem > a.d THEN {t + 1}
        ELSE {t, t + 1}

\* no clamp at all
ClampToMoodRange_Identity(tenths) == tenths

\* max(1, min(10, x)) of a number of tenths
ClampToMoodRange(tenths) ==
    IF tenths > 10 * MaxMood THEN 10 * MaxMood
    ELSE IF tenths < 10 * MinMood THEN 10 * MinMood
    ELSE tenths

\* sum(x_values) for x_values = list(range(n))
sum_x(n) == sum([i \in 1..n |-> i - 1])

\* the squares left out: sum(x for x in x_values)
sum_xx_Unsquared(n) == sum([i \in 1..n |-> i - 1])
\* sum(x * x for x in x_values)
sum_xx(n) == sum([i \in 1..n |-> (i - 1) * (i - 1)])

\* sum(x * y for x, y in zip(x_values, y_values))
sum_xy(y_values) == sum([i \in 1..Len(y_values) |-> (i - 1) * y_values[i]])

\* views.py:636  the dividend and the divisor of slope
SlopeDividend(y_values) ==
    Len(y_values) * sum_xy(y_values) - sum_x(Len(y_values)) * sum(y_values)

SlopeDivisor(n) == n * sum_xx(n) - sum_x(n) * sum_x(n)

\* intercept without the division by n
Intercept_Undivided(y_values) ==
    LET n == Len(y_values)
    IN  Frac(sum(y_values) * SlopeDivisor(n) - SlopeDividend(y_values) * sum_x(n),
             SlopeDivisor(n))

\* views.py:637  intercept = (sum_y - slope * sum_x) / n, for a slope that
\* is defined
Intercept(y_values) ==
    LET n == Len(y_values)
    IN  Frac(sum(y_values) * SlopeDivisor(n) - SlopeDividend(y_values) * sum_x(n),
             SlopeDivisor(n) * n)

\* views.py:640-641  predicted = slope * next_x + intercept with next_x = n
Predicted(y_values) ==
    LET n == Len(y_values)
    IN  FracAdd(Frac(SlopeDividend(y_values) * n, SlopeDivisor(n)), Intercept(y_values))

\* views.py:621-644  the outcomes of predict_next_mood(mood_values)
predict_next_mood(mood_values) ==
    IF Len(mood_values) < 3
    THEN {Divide(sum(mood_values), Len(mood_values))}
    ELSE IF SlopeDivisor(Len(mood_values)) = 0
         THEN {Raised("ZeroDivisionError")}
         ELSE {Returned(Reduce(Frac(ClampToMoodRange(t), 10))) :
                  t \in RoundTenthOutcomes(Predicted(mood_values))}

\* A call in flight: the function and its argument.
CallOf(function, mood_values) == [op |-> function, args |-> mood_values]

predict_next_mood_call(s) ==
    /\ req[s].op = "predict_next_mood"
    /\ \E r \in predict_next_mood(req[s].args) :
          resp' = [op |-> "predict_next_mood", args |-> req[s].args,
                   outcome |-> r.outcome, value |-> r.value]
    /\ req' = [req EXCEPT ![s] = Idle]
    /\ UNCHANGED <<users, moods, mood_seq, journals, achievements, assignments, notes,
                   today, sk>>

\* views.py:647  len(mood_values) < 5
ConfidenceMinPoints == 5

\* no minimum at all
TooFewForConfidence_Never(mood_values) == FALSE

\* views.py:647
TooFewForConfidence(mood_values) == Len(mood_values) < ConfidenceMinPoints

\* views.py:651-652  n * n * variance = n * sum(x * x) - sum(x) ** 2
ScaledVariance(mood_values) ==
    Len(mood_values) * sum([i \in 1..Len(mood_values) |-> mood_values[i] * mood_values[i]])
        - sum(mood_values) * sum(mood_values)

\* views.py:646-660  the outcomes of calculate_prediction_confidence.
\* std_dev < 1 and std_dev < 2 are variance < 1 and variance < 4; when the
\* variance is exactly 1 or 4 the float std_dev may fall on either side.
calculate_prediction_confidence(mood_values) ==
    LET n == Len(mood_values)
        v == ScaledVariance(mood_values)
    IN  IF TooFewForConfidence(mood_values) THEN {"Low"}
        ELSE IF v < n * n THEN {"High"}
        ELSE IF v = n * n THEN {"High", "Medium"}
        ELSE IF v < 4 * n * n THEN {"Medium"}
        ELSE IF v = 4 * n * n THEN {"Medium", "Low"}
        ELSE {"Low"}

calculate_prediction_confidence_call(s) ==
    /\ req[s].op = "calculate_prediction_confidence"
    /\ \E r \in calculate_prediction_confidence(req[s].args) :
          resp' = [op |-> "calculate_prediction_confidence", args |-> req[s].args,
                   outcome |-> "returned", value |-> r]
    /\ req' = [req EXCEPT ![s] = Idle]
    /\ UNCHANGED <<users, moods, mood_seq, journals, achievements, assignments, notes,
                   today, sk>>

-----------------------------------------------------------------------------
(* The predictors over lists of mood values *)

\* the longest list of mood values
MaxValues == 5

RECURSIVE SeqsOver(_, _)
SeqsOver(S, n) ==
    IF n = 0 THEN {<<>>}
    ELSE {Append(q, x) : q \in SeqsOver(S, n - 1), x \in S}

\* The lists passed: the empty one, every list of the lowest, a middle and
\* the highest mood, and every constant list.
MoodLists ==
    UNION {SeqsOver({MinMood, 5, MaxMood}, n) : n \in 0..MaxValues}
      \cup {[i \in 1..n |-> c] : n \in 1..MaxValues, c \in MinMood..MaxMood}

\* Each worker is about to call one of the two functions on a list.
InitPredict ==
    /\ users = SavedUsers
    /\ moods = {}
    /\ mood_seq = 0
    /\ journals = {}
    /\ achievements = {}
    /\ assignments = {}
    /\ notes = {}
    /\ today = 1
    /\ \E mood_values \in MoodLists :
          req = [s \in Slots |->
                   IF s = "w1" THEN CallOf("predict_next_mood", mood_values)
                   ELSE CallOf("calculate_prediction_confidence", mood_values)]
    /\ resp = [op |-> "none"]
    /\ sk = NoStreak

NextPredict ==
    \/ \E s \in Slots : predict_next_mood_call(s)
    \/ \E s \in Slots : calculate_prediction_confidence_call(s)

SpecPredict == InitPredict /\ [][NextPredict]_vars

IsConstant(values) == \A i \in 1..Len(values) : values[i] = values[1]

\* C12: for every non-empty list of values in 1..10, of any length,
\* predict_next_mood returns a value within [1, 10].
C12_PredictionInMoodRange ==
    (resp.op = "predict_next_mood" /\ resp.args # <<>>)
        => /\ resp.outcome = "returned"
           /\ FracLeq(FracOfInt(1), resp.value)
           /\ FracLeq(resp.value, FracOfInt(10))

\* The regression line of 1, 1, 10 passes 10 at the next point, and the call
\* returned 10.
C12_Witness ==
    /\ resp.op = "predict_next_mood"
    /\ resp.args = <<1, 1, 10>>
    /\ FracLess(FracOfInt(10), Predicted(resp.args))
    /\ resp.outcome = "returned"
    /\ FracEq(resp.value, FracOfInt(10))

\* C18: no analytics computation divides by zero: for every input, the empty
\* list included, a call of predict_next_mood or of
\* calculate_prediction_confidence returns and does not raise.
C18_NoDivisionByZero ==
    resp.op \in {"predict_next_mood", "calculate_prediction_confidence"}
        => resp.outcome = "returned"

\* C19: for every constant list (all values c, any length >= 1)
\* predict_next_mood returns c.
C19_FlatInputFlatPrediction ==
    (resp.op = "predict_next_mood" /\ resp.args # <<>> /\ IsConstant(resp.args))
        => /\ resp.outcome = "returned"
           /\ FracEq(resp.value, FracOfInt(resp.args[1]))

\* predict_next_mood([5, 5, 5, 5, 5]) returned 5.
C19_Witness ==
    /\ resp.op = "predict_next_mood"
    /\ resp.args = <<5, 5, 5, 5, 5>>
    /\ resp.outcome = "returned"
    /\ resp.value = FracOfInt(5)

\* C20: calculate_prediction_confidence returns 'Low' for every list of fewer
\* than 5 values, whatever the values are.
C20_LowBelowFivePoints ==
    (resp.op = "calculate_prediction_confidence" /\ Len(resp.args) < 5)
        => resp.value = "Low"

\* A constant list of 4 values (zero variance) was rated 'Low'.
C20_Witness ==
    /\ resp.op = "calculate_prediction_confidence"
    /\ resp.args = <<5, 5, 5, 5>>
    /\ ScaledVariance(resp.args) = 0
    /\ resp.value = "Low"

-----------------------------------------------------------------------------
(* predict_next_week_mood *)

\* views.py:666  timedelta(days=14)
WeekWindowDays == 14

\* views.py:698  range(7)
ForecastDays == 7

\* views.py:679  the fallback forecast value
NeutralMood == 5

\* Always-true variant of the window filter.
InWeekWindow_Always(m, now) == TRUE

\* date__date__gte=start_date, date__date__lte=end_date
InWeekWindow(m, now) == m.day >= now - WeekWindowDays /\ m.day <= now

\* .order_by('date__date'): the rows in an order of non-decreasing calendar
\* day; the order of the rows of one day is the database's choice.
RECURSIVE OrderingsByDay(_)
OrderingsByDay(rows) ==
    IF rows = {} THEN {<<>>}
    ELSE UNION {{<<first>> \o rest : rest \in OrderingsByDay(rows \ {first})} :
                   first \in {r \in rows : \A o \in rows : r.day <= o.day}}

\* no clamp at all
ClampForecast_Identity(a) == a

\* min(10, max(1, x))
ClampForecast(a) ==
    IF FracLess(FracOfInt(MaxMood), a) THEN FracOfInt(MaxMood)
    ELSE IF FracLess(a, FracOfInt(MinMood)) THEN FracOfInt(MinMood)
    ELSE a

\* views.py:699  base_mood + (slope * (i + 1) * 0.1) for day i = 1..7 and
\* slope = dividend / divisor
DayForecast(base_mood, dividend, divisor, i) ==
    FracAdd(FracOfInt(base_mood), Frac(dividend * i, divisor * 10))

\* views.py:698-700  the forecasts of days i..7: each day's value is clamped,
\* then rounded to one decimal
RECURSIVE WeeklyForecasts(_, _, _, _)
WeeklyForecasts(base_mood, dividend, divisor, i) ==
    IF i > ForecastDays THEN {<<>>}
    ELSE {<<Reduce(Frac(t, 10))>> \o rest :
             t \in RoundTenthOutcomes(
                      ClampForecast(DayForecast(base_mood, dividend, divisor, i))),
             rest \in WeeklyForecasts(base_mood, dividend, divisor, i + 1)}

\* sum(weekly_forecast), in tenths
RECURSIVE SumTenths(_)
SumTenths(forecast) ==
    IF forecast = <<>> THEN 0
    ELSE (10 * Head(forecast).n) \div Head(forecast).d + SumTenths(Tail(forecast))

\* views.py:703-713  avg_predicted >= 7, >= 4.  The float sum of whole numbers
\* is exact; a sum of tenths that is exactly on a threshold may fall on either
\* side of it.
WeekPredictions(forecast) ==
    LET total == SumTenths(forecast)
        n     == Len(forecast)
        whole == \A i \in 1..n : forecast[i].d = 1
        label(x) == IF x >= 70 * n THEN "positive"
                    ELSE IF x >= 40 * n THEN "stable"
                    ELSE "challenging"
    IN  IF ~whole /\ total \in {70 * n, 40 * n}
        THEN {label(total), label(total - 1)}
        ELSE {label(total)}

\* views.py:707, 710, 713
WeekMessage(prediction) ==
    CASE prediction = "positive" -> "Your mood trend suggests a positive week ahead!"
      [] prediction = "stable" -> "Your mood is likely to remain stable this week."
      [] OTHER ->
            "You might face some challenging days. Consider reaching out for support."

\* views.py:715
WeekConfidence(n) == IF n >= 7 THEN "high" ELSE IF n >= 3 THEN "medium" ELSE "low"

\* views.py:675-680  the result for an empty window
NoWeekDataResult ==
    [prediction |-> "neutral",
     confidence |-> "low",
     message |-> "Need more mood data for accurate predictions",
     weekly_forecast |-> [i \in 1..ForecastDays |-> FracOfInt(NeutralMood)]]

\* views.py:689  sum((x - sum(x_values)/len(x_values))**2 for x in x_values),
\* the divisor of slope: the mean (n - 1) / 2, the deviations and their
\* squares are multiples of 1/2 and 1/4, which the floats hold exactly.
SumSquaredDeviations(n) ==
    Reduce(Frac(sum([i \in 1..n |-> (2 * (i - 1) - (n - 1)) * (2 * (i - 1) - (n - 1))]), 4))
\* views.py:682-723  the outcomes for the values of a non-empty window
WeekOutcomes(mood_values) ==
    LET n         == Len(mood_values)
        dividend  == IF n > 1 THEN SlopeDividend(mood_values) ELSE 0
        divisor   == IF n > 1 THEN SlopeDivisor(n) ELSE 1
        base_mood == mood_values[n]
    IN  IF n > 1 /\ SumSquaredDeviations(n).n = 0 THEN {Raised("ZeroDivisionError")}
        ELSE UNION {{Returned([prediction |-> prediction,
                               confidence |-> WeekConfidence(n),
                               message |-> WeekMessage(prediction),
                               weekly_forecast |-> forecast,
                               avg_predicted |-> Reduce(Frac(avg, 10))]) :
                        prediction \in WeekPredictions(forecast),
                        avg \in RoundTenthOutcomes(
                                   Frac(SumTenths(forecast), 10 * ForecastDays))} :
                      forecast \in WeeklyForecasts(base_mood, dividend, divisor, 1)}

\* views.py:662-723  the outcomes of predict_next_week_mood(user)
predict_next_week_mood(ms, u, now) ==
    LET rows == {m \in MoodsOf(ms, u) : InWeekWindow(m, now)}
    IN  IF rows = {} THEN {Returned(NoWeekDataResult)}
        ELSE UNION {WeekOutcomes(MoodValues(recent_moods)) :
                       recent_moods \in OrderingsByDay(rows)}

\* views.py:274  progress_analytics:
\* mood_prediction = predict_next_week_mood(request.user)
predict_next_week_mood_call(u) ==
    /\ patient_required(u)
    /\ \E r \in predict_next_week_mood(moods, u, today) :
          resp' = [op |-> "predict_next_week_mood", user |-> u,
                   outcome |-> r.outcome, value |-> r.value]
    /\ UNCHANGED <<users, moods, mood_seq, journals, achievements, assignments, notes,
                   today, req, sk>>

-----------------------------------------------------------------------------
(* The weekly forecast over mood histories *)

\* the longest history of arbitrary shape in the 14-day window
MaxWeekEntries == 4

\* one entry on each day of the window
FullWindow == WeekWindowDays + 1

Rising(n) == [i \in 1..n |-> IF i < MaxMood THEN i ELSE MaxMood]

Falling(n) == [i \in 1..n |-> IF i < MaxMood THEN MaxMood + 1 - i ELSE MinMood]

\* The histories: every list of the lowest, a middle and the highest mood up
\* to MaxWeekEntries values, and a rising, a falling and a constant list of a
\* week and of the whole window.
WeekHistories ==
    UNION {SeqsOver({MinMood, 5, MaxMood}, n) : n \in 0..MaxWeekEntries}
      \cup {Rising(ForecastDays), Falling(ForecastDays), [i \in 1..ForecastDays |-> 6],
            Rising(FullWindow), Falling(FullWindow), [i \in 1..FullWindow |-> 6]}

\* p1 has logged a history in the window, one entry a day with the last one
\* today, or with the last two both today; before the window p1 has one
\* entry or none.  p2 has never logged.
InitWeekly ==
    /\ users = SavedUsers
    /\ today = 2 * FullWindow
    /\ \E values \in WeekHistories, old \in {0, 1}, same_day \in BOOLEAN :
          LET n == Len(values)
              day(i) == IF same_day /\ i < n THEN today - (n - 1 - i) ELSE today - (n - i)
          IN  /\ moods = {MoodRow(i, "p1", 3, "", "", today - FullWindow) : i \in 1..old}
                           \cup {MoodRow(old + i, "p1", values[i], "", "", day(i)) :
                                    i \in 1..n}
              /\ mood_seq = old + n
    /\ journals = {}
    /\ achievements = {}
    /\ assignments = {}
    /\ notes = {}
    /\ req = [s \in Slots |-> Idle]
    /\ resp = [op |-> "none"]
    /\ sk = NoStreak

NextWeekly == \E u \in UserIds : predict_next_week_mood_call(u)

SpecWeekly == InitWeekly /\ [][NextWeekly]_vars

\* The user has an entry on one of the days today - 14 .. today.
HasEntryInLast14Days(u) ==
    \E m \in moods : m.user = u /\ m.day >= today - WeekWindowDays /\ m.day <= today

\* C13: for every mood history (empty, a single entry, any number of entries
\* and any slope) predict_next_week_mood returns a weekly_forecast of exactly
\* 7 values, each within [1, 10].
C13_SevenForecastsInRange ==
    resp.op = "predict_next_week_mood"
        => /\ resp.outcome = "returned"
           /\ Len(resp.value.weekly_forecast) = 7
           /\ \A i \in 1..Len(resp.value.weekly_forecast) :
                 /\ FracLeq(FracOfInt(1), resp.value.weekly_forecast[i])
                 /\ FracLeq(resp.value.weekly_forecast[i], FracOfInt(10))

\* The entries 1 then 10 give a slope of 9 from the base 10: every projected
\* day lies above 10 and the forecast returned is 10 on each of the 7 days.
C13_Witness ==
    /\ resp.op = "predict_next_week_mood"
    /\ MoodValues(OrderByDate(MoodsOf(moods, resp.user))) = <<1, 10>>
    /\ resp.outcome = "returned"
    /\ resp.value.weekly_forecast = [i \in 1..7 |-> FracOfInt(10)]

\* C14: with no entry in the forecast window the result is the forecast
\* [5, 5, 5, 5, 5, 5, 5] with confidence 'low' and the data-insufficiency
\* message, and nothing is raised.
C14_EmptyWindowFallback ==
    (resp.op = "predict_next_week_mood" /\ ~HasEntryInLast14Days(resp.user))
        => /\ resp.outcome = "returned"
           /\ resp.value.weekly_forecast = [i \in 1..7 |-> FracOfInt(5)]
           /\ resp.value.confidence = "low"
           /\ resp.value.message = "Need more mood data for accurate predictions"

\* The forecast was made for a user whose only entry is older than the
\* window, and is the fallback.
C14_Witness ==
    /\ resp.op = "predict_next_week_mood"
    /\ MoodsOf(moods, resp.user) # {}
    /\ ~HasEntryInLast14Days(resp.user)
    /\ resp.outcome = "returned"
    /\ resp.value.weekly_forecast = [i \in 1..7 |-> FracOfInt(5)]
    /\ resp.value.confidence = "low"

-----------------------------------------------------------------------------
(* generate_ai_recommendations *)

\* views.py:612  journal_count < 5
JournalNudgeBelow == 5

\* views.py:615  game_sessions = 0
GameSessions == 0

\* views.py:616  game_sessions < 3
GameNudgeBelow == 3

\* views.py:619  recommendations[:5]
MaxRecommendations == 5

\* views.py:584-604  the recommendations of the mood bucket.  avg_mood < 4
\* and avg_mood < 6 on the float total / n are the comparisons of the rational.
BucketRecommendations(avg_mood) ==
    IF FracLess(avg_mood, FracOfInt(4))
    THEN <<"Consider speaking with a mental health professional",
           "Try daily gratitude journaling to shift perspective",
           "Practice deep breathing exercises for 5 minutes daily",
           "Reach out to trusted friends or family for support">>
    ELSE IF FracLess(avg_mood, FracOfInt(6))
    THEN <<"Continue with your current wellness activities",
           "Try adding mindfulness meditation to your routine",
           "Consider light exercise like walking",
           "Track your sleep patterns for better rest">>
    ELSE <<"Great job maintaining positive mental health!",
           "Consider helping others by sharing your coping strategies",
           "Try advanced mindfulness techniques",
           "Continue your current healthy habits">>

\* views.py:607-608  the two urgent-support messages (the first without the
\* warning sign it starts with in the source, which is not ASCII)
UrgentSupport == "URGENT: Your mood trend suggests you may need additional support"

UrgentProvider == "Consider contacting a healthcare provider soon"

\* views.py:613
JournalNudge == "Try journaling more frequently to process your emotions"

\* views.py:617
GameNudge == "Engage with our wellness games for stress relief"

\* list.append in place of list.insert
Insert_AtEnd(list, i, x) == Append(list, x)

\* list.insert(i, x) for 0 <= i <= len(list)
Insert(list, i, x) == Take(list, i) \o <<x>> \o Drop(list, i)

\* views.py:581-619
generate_ai_recommendations(avg_mood, trend, js, u) ==
    LET bucket        == BucketRecommendations(avg_mood)
        prepended     == IF trend = "declining"
                         THEN Insert(Insert(bucket, 0, UrgentSupport), 1, UrgentProvider)
                         ELSE bucket
        journal_count == Cardinality(JournalsOf(js, u))
        journaled     == IF journal_count < JournalNudgeBelow
                         THEN Append(prepended, JournalNudge)
                         ELSE prepended
        recommendations == IF GameSessions < GameNudgeBelow
                           THEN Append(journaled, GameNudge)
                           ELSE journaled
    IN  Take(recommendations,
             IF Len(recommendations) < MaxRecommendations THEN Len(recommendations)
             ELSE MaxRecommendations)

\* views.py:382  ai_mood_prediction:
\* recommendations = generate_ai_recommendations(avg_mood, trend, request.user)
generate_ai_recommendations_call(s) ==
    /\ req[s].op = "generate_ai_recommendations"
    /\ resp' = [op |-> "generate_ai_recommendations", avg_mood |-> req[s].avg_mood,
                trend |-> req[s].trend, user |-> req[s].user,
                value |-> generate_ai_recommendations(req[s].avg_mood, req[s].trend,
                                                      journals, req[s].user)]
    /\ req' = [req EXCEPT ![s] = Idle]
    /\ UNCHANGED <<users, moods, mood_seq, journals, achievements, assignments, notes,
                   today, sk>>

-----------------------------------------------------------------------------
(* The recommendations over averages, trends and journal counts *)

\* the most journals a user has written
MaxJournalCount == 6

\* views.py:371-378  the trends ai_mood_prediction passes
TrendInputs == {"improving", "declining", "stable"}

\* the averages passed: every number of tenths from 1.0 to 10.0
AverageInputs == {Frac(t, 10) : t \in (10 * MinMood)..(10 * MaxMood)}

\* Each patient has written some journals; each worker is about to ask for
\* the recommendations of one of the patients.
InitRecommend ==
    /\ users = SavedUsers
    /\ moods = {}
    /\ mood_seq = 0
    /\ \E k \in 0..MaxJournalCount :
          journals = {JournalRow(i, "p1", "t", "c") : i \in 1..k}
                       \cup {JournalRow(k + i, "p2", "t", "c") : i \in 1..(MaxJournalCount - k)}
    /\ achievements = {}
    /\ assignments = {}
    /\ notes = {}
    /\ today = 1
    /\ \E avg_mood \in AverageInputs, trend \in TrendInputs :
          req = [s \in Slots |->
                   [op |-> "generate_ai_recommendations", avg_mood |-> avg_mood,
                    trend |-> trend, user |-> IF s = "w1" THEN "p1" ELSE "p2"]]
    /\ resp = [op |-> "none"]
    /\ sk = NoStreak

NextRecommend == \E s \in Slots : generate_ai_recommendations_call(s)

SpecRecommend == InitRecommend /\ [][NextRecommend]_vars

\* C15: the list returned has at most 5 entries, and for a declining trend
\* its entries 0 and 1 are the two urgent-support messages, in that order,
\* followed by the mood bucket's recommendations in their original order.
C15_AtMostFiveUrgentFirst ==
    resp.op = "generate_ai_recommendations"
        => /\ Len(resp.value) <= 5
           /\ resp.trend = "declining"
                 => /\ Len(resp.value) >= 2
                    /\ resp.value[1] = UrgentSupport
                    /\ resp.value[2] = UrgentProvider
                    /\ \A i \in 3..Len(resp.value) :
                          resp.value[i] = BucketRecommendations(resp.avg_mood)[i - 2]

\* The recommendations for a declining trend and a low average of a user with
\* fewer than 5 journals: the two urgent messages, then the bucket's first
\* three.
C15_Witness ==
    /\ resp.op = "generate_ai_recommendations"
    /\ resp.trend = "declining"
    /\ FracLess(resp.avg_mood, FracOfInt(4))
    /\ Cardinality(JournalsOf(journals, resp.user)) < 5
    /\ resp.value = <<UrgentSupport, UrgentProvider,
                      "Consider speaking with a mental health professional",
                      "Try daily gratitude journaling to shift perspective",
                      "Practice deep breathing exercises for 5 minutes daily">>

-----------------------------------------------------------------------------
(* ai_mood_prediction *)

\* views.py:358  [:14]
PredictionWindow == 14

\* views.py:361  len(recent_moods) >= 7
MinPredictionPoints == 7

Reverse(list) == [i \in 1..Len(list) |-> list[Len(list) + 1 - i]]

\* MoodEntry.objects.filter(user=request.user).order_by('-date')[:14]: the
\* newest entry first
RecentMoods(ms, u) ==
    LET newest_first == Reverse(OrderByDate(MoodsOf(ms, u)))
    IN  Take(newest_first,
             IF Len(newest_first) < PredictionWindow THEN Len(newest_first)
             ELSE PredictionWindow)

\* views.py:368-379  first_half and second_half are the float means of
\* mood_values[:n//2] and mood_values[n//2:].  Two such quotients compare as
\* the rationals do: equal rationals give equal floats, and unequal ones
\* differ by far more than the rounding error.
PredictionTrend(mood_values) ==
    LET n           == Len(mood_values)
        first_half  == Frac(sum(Take(mood_values, n \div 2)), n \div 2)
        second_half == Frac(sum(Drop(mood_values, n \div 2)), n - n \div 2)
    IN  IF FracLess(first_half, second_half) THEN "improving"
        ELSE IF FracLess(second_half, first_half) THEN "declining"
        ELSE "stable"

\* views.py:373, 376, 379
PredictionTrendMessage(trend) ==
    CASE trend = "improving" ->
            "Your mood has been trending upward! Keep up the great work."
      [] trend = "declining" ->
            "Your mood has been trending downward. Consider reaching out for support."
      [] OTHER ->
            "Your mood has been relatively stable. This consistency is positive."

\* views.py:352-397  the prediction_data the view renders, for a patient:
\* None with fewer than 7 recent entries
ai_mood_prediction(ms, js, u) ==
    LET recent_moods == RecentMoods(ms, u)
        mood_values  == MoodValues(recent_moods)
        n            == Len(mood_values)
        trend        == PredictionTrend(mood_values)
    IN  IF n >= MinPredictionPoints
        THEN {[avg_mood |-> Frac(RoundTenth(sum(mood_values), n), 10),
               trend |-> trend,
               trend_message |-> PredictionTrendMessage(trend),
               recommendations |->
                   generate_ai_recommendations(Frac(sum(mood_values), n), trend, js, u),
               data_points |-> n,
               predicted_mood |-> predicted.value,
               confidence |-> confidence] :
                  predicted \in predict_next_mood(mood_values),
                  confidence \in calculate_prediction_confidence(mood_values)}
        ELSE {[data_points |-> 0]}

\* views.py:352-397  a GET of the view; a doctor is redirected
ai_mood_prediction_call(u) ==
    /\ IF patient_required(u)
       THEN \E data \in ai_mood_prediction(moods, journals, u) :
               resp' = [op |-> "ai_mood_prediction", user |-> u,
                        outcome |-> IF data.data_points = 0 THEN "no_prediction"
                                    ELSE "prediction",
                        value |-> data]
       ELSE resp' = [op |-> "ai_mood_prediction", user |-> u, outcome |-> "redirect",
                     value |-> [data_points |-> 0]]
    /\ UNCHANGED <<users, moods, mood_seq, journals, achievements, assignments, notes,
                   today, req, sk>>

-----------------------------------------------------------------------------
(* The predictive view over mood histories *)

\* the numbers of entries a user has logged: none, fewer than the view
\* needs, as many as it needs, and more than it reads
PredictionLengths ==
    {0, MinPredictionPoints - 1, MinPredictionPoints, MinPredictionPoints + 1,
     PredictionWindow + 1}

\* p1 has logged the values of a history, one entry a day up to today; p2
\* has logged nothing.
InitPrediction ==
    /\ users = SavedUsers
    /\ today = PredictionWindow + 1
    /\ \E n \in PredictionLengths : \E values \in Histories(n) :
          /\ moods = {MoodRow(i, "p1", values[i], "", "", today - n + i) : i \in 1..n}
          /\ mood_seq = n
    /\ journals = {}
    /\ achievements = {}
    /\ assignments = {}
    /\ notes = {}
    /\ req = [s \in Slots |-> Idle]
    /\ resp = [op |-> "none"]
    /\ sk = NoStreak

NextPrediction == \E u \in UserIds : ai_mood_prediction_call(u)

SpecPrediction == InitPrediction /\ [][NextPrediction]_vars

\* The mood values of the user's 14 most recent entries, oldest first.
RecentChronological(u) ==
    LET all == MoodValues(OrderByDate({m \in moods : m.user = u}))
    IN  IF Len(all) <= 14 THEN all ELSE Drop(all, Len(all) - 14)

\* The mean of the later n div 2 values minus the mean of the earlier ones.
LaterMinusEarlier(values) ==
    LET k == Len(values) - Len(values) \div 2
    IN  FracSub(Frac(sum(Drop(values, k)), Len(values) - k), Frac(sum(Take(values, k)), k))

\* C21: in the predictive view the label is 'improving' only if the mean of
\* the chronologically later half of the recent entries exceeds the mean of
\* the earlier half by more than 0.5, 'declining' only if it is lower by more
\* than 0.5, and 'stable' otherwise.
C21_PredictionTrendChronological ==
    (resp.op = "ai_mood_prediction" /\ resp.outcome = "prediction")
        => LET slope == LaterMinusEarlier(RecentChronological(resp.user))
           IN  /\ resp.value.trend = "improving" <=> FracLess(Frac(1, 2), slope)
               /\ resp.value.trend = "declining" <=> FracLess(slope, Frac(-1, 2))
               /\ resp.value.trend \in {"improving", "declining", "stable"}

-----------------------------------------------------------------------------
(* The base of the weekly forecast *)

\* The user's entry in the 14-day window with the greatest timestamp (the
\* primary keys grow with the timestamps, which are set on creation).
MostRecentInWindow(u) ==
    LET rows == {m \in MoodsOf(moods, u) : InWeekWindow(m, today)}
    IN  CHOOSE m \in rows : \A o \in rows : o.id <= m.id

\* C24: in predict_next_week_mood the base_mood from which the 7 days are
\* projected is the mood of the user's most recent entry in the window (the
\* one with the greatest timestamp), also when several entries share the same
\* calendar day: the result returned is one computed from a row list whose
\* last row is that entry.
C24_BaseMoodIsMostRecent ==
    (resp.op = "predict_next_week_mood" /\ HasEntryInLast14Days(resp.user))
        => \E recent_moods \in OrderingsByDay({m \in MoodsOf(moods, resp.user) :
                                                  InWeekWindow(m, today)}) :
              /\ recent_moods[Len(recent_moods)] = MostRecentInWindow(resp.user)
              /\ [outcome |-> resp.outcome, value |-> resp.value]
                    \in WeekOutcomes(MoodValues(recent_moods))

-----------------------------------------------------------------------------
(* The analytics functions called one after another on one store *)

\* the longest mood history of the analytics runs
MaxAnalyticsEntries == 2

\* p1 has logged a short history, one entry a day with the last one today, or
\* with the last two both today, and has written no journals or five; p2 has
\* done neither.  Both workers are about to ask for the recommendations of
\* p1 with the same average and trend.
InitAnalytics ==
    /\ users = SavedUsers
    /\ today = 2 * FullWindow
    /\ \E n \in 0..MaxAnalyticsEntries, same_day \in BOOLEAN :
          \E values \in SeqsOver({MinMood, MaxMood}, n) :
             LET day(i) == IF same_day /\ i < n THEN today - (n - 1 - i) ELSE today - (n - i)
             IN  /\ moods = {MoodRow(i, "p1", values[i], "", "", day(i)) : i \in 1..n}
                 /\ mood_seq = n
    /\ \E k \in {0, JournalNudgeBelow} :
          journals = {JournalRow(i, "p1", "t", "c") : i \in 1..k}
    /\ achievements = {}
    /\ assignments = {}
    /\ notes = {}
    /\ \E avg_mood \in {Frac(25, 10), Frac(80, 10)}, trend \in {"declining", "stable"} :
          req = [s \in Slots |->
                   [op |-> "generate_ai_recommendations", avg_mood |-> avg_mood,
                    trend |-> trend, user |-> "p1"]]
    /\ resp = [op |-> "none"]
    /\ sk = NoStreak

NextAnalytics ==
    \/ \E s \in Slots : generate_ai_recommendations_call(s)
    \/ \E u \in Patients : analyze_mood_trends_call("web", u)
    \/ \E u \in Patients : analyze_mood_trends_call("api", u)
    \/ \E u \in UserIds : predict_next_week_mood_call(u)
    \/ \E u \in Patients : calculate_streak_call("web", u)
    \/ \E u \in Patients : calculate_streak_call("api", u)
    \/ calculate_streak_turn

SpecAnalytics == InitAnalytics /\ [][NextAnalytics]_vars

\* No record of the store is added, removed or changed.
StoreUnchanged == UNCHANGED <<users, moods, journals, achievements, assignments, notes>>

\* Two outcomes are calls of the same function with the same inputs.
SameCall(a, b) ==
    /\ a.op = b.op
    /\ a.op # "none"
    /\ a.user = b.user
    /\ a.op = "analyze_mood_trends" => a.via = b.via
    /\ a.op = "generate_ai_recommendations" => a.avg_mood = b.avg_mood /\ a.trend = b.trend

\* Two outcomes carry the same result.  The program's float arithmetic is a
\* function of its operands, so two results of predict_next_week_mood are the
\* same when both are outcomes of the arithmetic on one list of rows.
SameResult(a, b) ==
    IF a.op = "predict_next_week_mood" /\ HasEntryInLast14Days(a.user)
    THEN \E recent_moods \in OrderingsByDay({m \in MoodsOf(moods, a.user) :
                                                InWeekWindow(m, today)}) :
            /\ [outcome |-> a.outcome, value |-> a.value]
                  \in WeekOutcomes(MoodValues(recent_moods))
            /\ [outcome |-> b.outcome, value |-> b.value]
                  \in WeekOutcomes(MoodValues(recent_moods))
    ELSE a = b

\* C22: generate_ai_recommendations, analyze_mood_trends,
\* predict_next_week_mood and calculate_streak leave every record of the
\* store (mood entries, journals, achievements, assignments, notes, users)
\* unchanged, and two calls on the same store state and inputs return the
\* same result.
C22_ReadOnlyDeterministic ==
    /\ [][/\ StoreUnchanged
          /\ SameCall(resp, resp') => SameResult(resp, resp')]_vars
    /\ [](sk.pc = "returned" => sk.streak = calculate_streak(moods, sk.user, sk.today))

-----------------------------------------------------------------------------
(* The journaling encouragement among the recommendations *)

\* The list has the entry.
Has(list, x) == \E i \in 1..Len(list) : list[i] = x

\* C23: the returned list includes the journaling-encouragement message if
\* and only if the user's journal-entry count is < 5 and the trend is not
\* 'declining', and then it is the 5th entry; with a declining trend the list
\* is the two urgent messages and the first 3 bucket recommendations:
\* truncation to 5 drops the journaling message and the last bucket
\* recommendation.
C23_JournalNudgeIffFewJournalsNotDeclining ==
    resp.op = "generate_ai_recommendations"
        => LET journal_count == Cardinality({j \in journals : j.user = resp.user})
               bucket        == BucketRecommendations(resp.avg_mood)
           IN  /\ Has(resp.value, JournalNudge)
                     <=> (journal_count < 5 /\ resp.trend # "declining")
               /\ Has(resp.value, JournalNudge)
                     => Len(resp.value) = 5 /\ resp.value[5] = JournalNudge
               /\ resp.trend = "declining"
                     => /\ resp.value = <<UrgentSupport, UrgentProvider,
                                          bucket[1], bucket[2], bucket[3]>>
                        /\ ~Has(resp.value, bucket[4])

\* The recommendations of a user with fewer than 5 journals were returned
\* for a declining trend: 5 entries, the journaling message not among them.
C23_Witness ==
    /\ resp.op = "generate_ai_recommendations"
    /\ resp.trend = "declining"
    /\ Cardinality({j \in journals : j.user = resp.user}) < 5
    /\ Len(resp.value) = 5
    /\ ~Has(resp.value, JournalNudge)

-----------------------------------------------------------------------------
(* The divisors of the two slopes *)

\* the longest list of mood values a slope is computed from
MaxSlopePoints == 15

\* The lists of n values: rising, falling, constant and alternating.
SlopeLists(n) ==
    {Rising(n), Falling(n), [i \in 1..n |-> 6],
     [i \in 1..n |-> IF i % 2 = 0 THEN MaxMood ELSE MinMood]}

\* p1 has logged the values of a list on the last n days, one entry a day;
\* a worker is about to call predict_next_mood on the same list.
InitSlope ==
    /\ users = SavedUsers
    /\ today = 2 * MaxSlopePoints
    /\ \E n \in 0..MaxSlopePoints : \E values \in SlopeLists(n) :
          /\ moods = {MoodRow(i, "p1", values[i], "", "", today - n + i) : i \in 1..n}
          /\ mood_seq = n
          /\ req = [s \in Slots |-> IF s = "w1" THEN CallOf("predict_next_mood", values)
                                    ELSE Idle]
    /\ journals = {}
    /\ achievements = {}
    /\ assignments = {}
    /\ notes = {}
    /\ resp = [op |-> "none"]
    /\ sk = NoStreak

NextSlope ==
    \/ \E s \in Slots : predict_next_mood_call(s)
    \/ \E u \in UserIds : predict_next_week_mood_call(u)

SpecSlope == InitSlope /\ [][NextSlope]_vars

\* The number of the user's entries in the 14-day window.
WindowCount(u) == Cardinality({m \in MoodsOf(moods, u) : InWeekWindow(m, today)})

\* C25: for every n >= 3 the divisor n*sum(x^2) - (sum x)^2 of the slope of
\* predict_next_mood, and for every n >= 2 the sum of squared deviations of
\* x from its mean that divides the slope of predict_next_week_mood, with
\* x = 0..n-1, is strictly positive, so neither slope divides by zero.
C25_SlopeDivisorsPositive ==
    /\ (resp.op = "predict_next_mood" /\ Len(resp.args) >= 3)
          => /\ SlopeDivisor(Len(resp.args)) > 0
             /\ resp.outcome = "returned"
    /\ (resp.op = "predict_next_week_mood" /\ WindowCount(resp.user) >= 2)
          => /\ SumSquaredDeviations(WindowCount(resp.user)).n > 0
             /\ SumSquaredDeviations(WindowCount(resp.user)).d > 0
             /\ resp.outcome = "returned"

\* predict_next_mood returned for a sloped list of exactly 3 values.
C25_Witness ==
    /\ resp.op = "predict_next_mood"
    /\ Len(resp.args) = 3
    /\ resp.args[1] # resp.args[3]
    /\ SlopeDivisor(3) > 0
    /\ resp.outcome = "returned"

-----------------------------------------------------------------------------
(* Termination of calculate_streak *)

\* A call that has started keeps taking the turns of its loop: the request
\* that runs it is not suspended.
SpecStreakFair == InitStreak /\ [][NextStreak]_vars /\ WF_vars(calculate_streak_turn)

\* C26: calculate_streak terminates: its backward day-by-day loop stops at
\* the first calendar day with no entry and performs exactly streak + 1
\* existence checks, so the work is bounded by the length of the current run
\* of consecutive days, not by the number of days the account has entries on.
C26_StreakTerminates ==
    /\ (sk.pc = "loop") ~> (sk.pc = "returned")
    /\ [](sk.pc = "loop"
             => /\ sk.checks = sk.streak
                /\ sk.checks <= LongestRunEndingAt(sk.user, sk.today))
    /\ [](sk.pc = "returned"
             => /\ sk.checks = sk.streak + 1
                /\ sk.checks = LongestRunEndingAt(sk.user, sk.today) + 1
                /\ ~HasEntryOn(sk.user, sk.today - sk.streak))

\* A call returned after 3 existence checks for a user who has an entry
\* older than the run of 2 days it counted.
C26_Witness ==
    /\ sk.pc = "returned"
    /\ sk.streak = 2
    /\ sk.checks = 3
    /\ \E m \in moods : m.user = sk.user /\ m.day < sk.today - sk.streak

-----------------------------------------------------------------------------
(* accounts.User.save, generate_patient_id and the lazy generation of
   patient_dashboard *)

\* models.py:15  max_length=8, models.py:31  [:8]
PatientIdLength == 8

\* The strings str(uuid.uuid4()) may give (in the model they are short, and
\* the slice keeps them whole).
Uuid4Strings == {<<"a", "b">>, <<"b", "a">>, <<"b", "b">>}

\* models.py:31  str(uuid.uuid4())[:8].upper()
PatientIdFrom(uuid4) ==
    upper(IF Len(uuid4) <= PatientIdLength THEN uuid4 ELSE Take(uuid4, PatientIdLength))

\* models.py:24, views.py:18  not patient_id or patient_id == ''
HasNoPatientId(instance) == instance.patient_id = NoPatientId \/ instance.patient_id = <<>>

\* models.py:32  User.objects.filter(patient_id=patient_id).exists()
PatientIdExists(patient_id) == \E r \in users : r.patient_id = patient_id

\* models.py:15  unique=True: the database refuses a row whose patient_id
\* another row holds (NULL is held by any number of rows)
ViolatesUnique(instance) ==
    /\ instance.patient_id # NoPatientId
    /\ \E r \in users : r.id # instance.id /\ r.patient_id = instance.patient_id

\* A request that holds a User instance in memory and is about to run
\* User.save on it, or generate_patient_id for it.
SaveFrame(op, pc, instance) == [op |-> op, pc |-> pc, instance |-> instance]

\* models.py:22-25  User.save up to the call of generate_patient_id
AfterSaveCondition(instance) ==
    IF instance.role = "patient" /\ HasNoPatientId(instance) THEN "generate" ELSE "write"

\* accounts/forms.py:16-23, api.py:42-46  registration: a new User instance
\* with the role of the form, no patient_id, and user.save()
register_user(s, u) ==
    /\ req[s] = Idle
    /\ ~\E r \in users : r.id = u
    /\ ~\E o \in Slots : req[o].op = "register_user" /\ req[o].instance.id = u
    /\ LET instance == [id |-> u, role |-> RoleOf(u), patient_id |-> NoPatientId]
       IN  req' = [req EXCEPT ![s] = SaveFrame("register_user",
                                               AfterSaveCondition(instance), instance)]
    /\ UNCHANGED <<users, moods, mood_seq, journals, achievements, assignments, notes,
                   today, resp, sk>>

\* views.py:13-20  patient_dashboard: the decorators load request.user;
\* a patient without a patient_id goes on to generate one, any other
\* patient is served at once
patient_dashboard_load(s, u) ==
    /\ req[s] = Idle
    /\ \E r \in users : r.id = u
    /\ IF ~patient_required(u)
       THEN /\ resp' = [op |-> "patient_dashboard", user |-> u, outcome |-> "redirect"]
            /\ req' = req
       ELSE IF HasNoPatientId(UserRow(u))
       THEN /\ req' = [req EXCEPT ![s] = SaveFrame("patient_dashboard", "generate",
                                                   UserRow(u))]
            /\ resp' = resp
       ELSE /\ resp' = [op |-> "patient_dashboard", user |-> u, outcome |-> "page",
                        patient_id |-> UserRow(u).patient_id]
            /\ req' = req
    /\ UNCHANGED <<users, moods, mood_seq, journals, achievements, assignments, notes,
                   today, sk>>

\* models.py:28-33  one turn of generate_patient_id's loop: a uuid4 and the
\* exists() query; the loop repeats on a patient_id in use, and returns
\* otherwise (models.py:25, views.py:19 assign the value to the instance)
generate_patient_id(s) ==
    /\ req[s].op \in {"register_user", "patient_dashboard"}
    /\ req[s].pc = "generate"
    /\ \E uuid4 \in Uuid4Strings :
          LET patient_id == PatientIdFrom(uuid4)
          IN  IF PatientIdExists(patient_id)
              THEN req' = req
              ELSE req' = [req EXCEPT ![s].instance.patient_id = patient_id,
                                      ![s].pc = "write"]
    /\ UNCHANGED <<users, moods, mood_seq, journals, achievements, assignments, notes,
                   today, resp, sk>>

\* models.py:26  super().save(): the INSERT or UPDATE of the row, which the
\* unique constraint may refuse
save(s) ==
    /\ req[s].op \in {"register_user", "patient_dashboard"}
    /\ req[s].pc = "write"
    /\ LET instance == req[s].instance
       IN  IF ViolatesUnique(instance)
           THEN /\ users' = users
                /\ resp' = [op |-> req[s].op, user |-> instance.id,
                            outcome |-> "IntegrityError"]
           ELSE /\ users' = {r \in users : r.id # instance.id} \cup {instance}
                /\ resp' = [op |-> req[s].op, user |-> instance.id, outcome |-> "page",
                            patient_id |-> instance.patient_id]
    /\ req' = [req EXCEPT ![s] = Idle]
    /\ UNCHANGED <<moods, mood_seq, journals, achievements, assignments, notes, today, sk>>

\* The accounts at the start: d1, and p1 either saved by User.save, with a
\* patient_id, or an account from before the patient_id field existed (the
\* "existing users" of views.py:17), with none; p2 and d2 have yet to
\* register.
InitPatientId ==
    /\ \E legacy \in BOOLEAN :
          users = {[id |-> "d1", role |-> "doctor", patient_id |-> NoPatientId],
                   [id |-> "p1", role |-> "patient",
                    patient_id |-> IF legacy THEN NoPatientId ELSE PatientIdOf("p1")]}
    /\ moods = {}
    /\ mood_seq = 0
    /\ journals = {}
    /\ achievements = {}
    /\ assignments = {}
    /\ notes = {}
    /\ today = 0
    /\ req = [s \in Slots |-> Idle]
    /\ resp = [op |-> "none"]
    /\ sk = NoStreak

NextPatientId ==
    \/ \E s \in Slots, u \in UserIds : register_user(s, u)
    \/ \E s \in Slots, u \in UserIds : patient_dashboard_load(s, u)
    \/ \E s \in Slots : generate_patient_id(s)
    \/ \E s \in Slots : save(s)

SpecPatientId == InitPatientId /\ [][NextPatientId]_vars

\* No two users have the same non-empty patient_id.
PatientIdsUnique ==
    \A r1 \in users, r2 \in users :
       (r1.id # r2.id /\ ~HasNoPatientId(r1)) => r1.patient_id # r2.patient_id

\* Every row of a patient-role user that a save writes has a patient_id.
SavedPatientsHaveId ==
    \A r \in users' : (r \notin users /\ r.role = "patient") => ~HasNoPatientId(r)

\* A user who has a patient_id keeps it.
PatientIdsStable ==
    \A r \in users : ~HasNoPatientId(r)
       => \E n \in users' : n.id = r.id /\ n.patient_id = r.patient_id

\* C27: under any interleaving of user saves and patient_dashboard requests,
\* no two users have the same non-empty patient_id; every saved patient-role
\* user has a non-empty patient_id; and once a user has a patient_id, no
\* later save or dashboard access changes it.
C27_PatientIdsUniqueAndStable ==
    /\ []PatientIdsUnique
    /\ [][SavedPatientsHaveId /\ PatientIdsStable]_vars

-----------------------------------------------------------------------------
(* The two milestones of a user *)

\* p1 has entries short of a milestone and no achievement: the entries were
\* created through the API, which does not check achievements.
InitMilestones ==
    /\ users = SavedUsers
    /\ \E n \in SeedCounts :
          /\ moods = SeedMoods(n)
          /\ mood_seq = n
    /\ achievements = {}
    /\ journals = {}
    /\ assignments = {}
    /\ notes = {}
    /\ today = 1
    /\ req = [s \in Slots |-> Idle]
    /\ resp = [op |-> "none"]
    /\ sk = NoStreak

SpecMilestones == InitMilestones /\ [][NextAchievements]_vars

\* C28: under any sequence or interleaving of log_mood requests, a user who
\* has a 'Monthly Master' achievement also has a 'Week Warrior' achievement,
\* and no achievement is ever removed.
C28_MonthlyMasterImpliesWeekWarrior ==
    /\ [](\A u \in UserIds :
             AchievementsOf(achievements, u, MonthlyMaster) # {}
                => AchievementsOf(achievements, u, WeekWarrior) # {})
    /\ [][achievements \subseteq achievements']_vars

\* A user with 30 entries has both achievements, which were created by
\* log_mood requests.
C28_Witness ==
    /\ MoodCount(moods, "p1") >= MonthlyMasterCount
    /\ AchievementsOf(achievements, "p1", MonthlyMaster) # {}
    /\ AchievementsOf(achievements, "p1", WeekWarrior) # {}

====
